---- MODULE Spec2Model ----
(***************************************************************************)
(* The mapping controller of nyat-core: TcpMapper::run and UdpMapper::run  *)
(* with the setup they drive (TcpMapperReactor::new, the UDP socket /      *)
(* resolve / connect prologue) and their keepalive loops.                  *)
(*                                                                         *)
(* One action per suspension point (.await) of the two async functions;    *)
(* the outcome of the awaited I/O is the action's input, drawn with \E.    *)
(* The synchronous code between two awaits belongs to the action of the    *)
(* await that precedes it.  This is specification Spec; in it a STUN probe *)
(* is one step whose outcome is an input.                                  *)
(*                                                                         *)
(* The STUN client of stun.rs (parse_response and the two discover calls   *)
(* tcp_socket_addr and udp_socket_addr) is modelled on byte sequences in   *)
(* specification SpecStun, which runs one discover call against every      *)
(* response of a bounded set.                                              *)
(*                                                                         *)
(* The construction of a LocalAddr from user input (the run arguments of   *)
(* cli.rs, the batch file of multi/parse.rs, TaskConfig::into_mapper) and  *)
(* LocalAddr::socket, which binds it, are specification SpecSocket.        *)
(*                                                                         *)
(* The supervisors of the nyat binary, which call run in a loop (proc of   *)
(* single.rs, run_task and run of multi/handle.rs), are specification      *)
(* SpecSup; in it run is one step whose returned error is an input.        *)
(*                                                                         *)
(* Four more specifications vary one part of the environment each: SpecDns *)
(* is Spec with a name server whose answer changes; SpecRestart is Spec    *)
(* with a supervisor that calls run again; SpecTick is the clock of the    *)
(* two keepalive loops; SpecQueue is the probes of one UDP keepalive on a  *)
(* socket that holds a datagram of an earlier exchange.                    *)
(***************************************************************************)
EXTENDS Integers, Sequences, FiniteSets

(***************************************************************************)
(* Bounds of the model.                                                    *)
(***************************************************************************)
\* number of distinct public addresses a STUN server may report
NumAddrs == 2
\* cap on the successful STUN probes of one run (bounds the histories)
MaxProbes == 3
\* largest check_per_tick (NonZeroUsize) a UdpMapper is built with
MaxCheckPerTick == 3
\* the ticks of one UDP keepalive loop are counted up to this number
MaxTicks == 6
\* longest time the work of one keepalive tick takes, in the unit of the clock
MaxWork == 3
\* most sockets of the port that one socket table lists
MaxMatching == 1
\* number of ports the system may pick when asked to bind port 0
NumEphemeral == 2
\* largest number of attributes in the body of a STUN response
MaxAttrs == 2
\* number of transaction ids build_request may draw
NumTxIds == 2
\* longest interface name (in bytes) a user passes
MaxIfaceLen == 17
\* number of tasks of a batch file
NumTasks == 3

(***************************************************************************)
(* Program constants and value domains.                                    *)
(***************************************************************************)
\* TcpMapper::RETRY_LTD, UdpMapper::RETRY_LTD
RETRY_LTD == 5

\* Option<SocketAddr>::None, the initial current_ip
NoAddr == 0
Addrs == 1..NumAddrs

\* crate::net::Protocol
Protocols == {"tcp", "udp"}

\* DnsError as converted by From<DnsError> for Error
DnsErrors == {"DnsResolve", "AddrNotFound"}

\* the two forms of a RemoteAddr: RemoteAddrKind::Host and ::Resolved
RemoteKinds == {"host", "resolved"}

\* the addresses a lookup of the STUN host can return
DnsAnswers == {1, 2}

\* the SocketAddr a RemoteAddrKind::Resolved endpoint holds
ResolvedAddr == 1
\* StunError as converted by From<StunError> for Error
StunErrors == {"StunMalformed", "StunResponseTooLarge", "StunNetwork",
               "StunTransactionIdMismatch"}
\* crate::error::Error
Errors == {"Socket", "Connection", "Keepalive"} \cup DnsErrors \cup StunErrors

\* run has not returned
NoResult == "none"

\* port 0 of a configured local address: the system assigns a port at bind
AnyPort == 0
\* the ports the system assigns from
EphemeralPorts == 1..NumEphemeral
\* a configured local port that is not 0
FixedPort == NumEphemeral + 1
\* the ports a LocalAddr is configured with
LocalPorts == {AnyPort, FixedPort}
\* a socket that is not built, or is dropped
NoSocket == -1

\* no keepalive datagram
NoDgram == [sock |-> "none", to |-> NoAddr]

\* Error::is_recoverable: every kind but Socket is recoverable
IsRecoverable(e) == e # "Socket"

\* the tasks of a batch file; a single run is task 1
Tasks == 1..NumTasks
\* how the binary was started: `nyat run` or `nyat batch`
SupModes == {"single", "batch"}
\* seconds a supervisor sleeps before it calls run again
SUP_SLEEP_SECS == 5

\* libc::IFNAMSIZ, the size of LocalAddr.iface's buffer
IFNAMSIZ == 16
\* Option<String>::None for an interface name
NoIface == -1
\* an interface name is modelled by its length in bytes
IfaceNames == {NoIface} \cup (0..MaxIfaceLen)
\* where the user input comes from: `nyat run` arguments or a batch file
ConfigPaths == {"cli", "batch"}
\* std::io::ErrorKind of a failed bind: AddrInUse, or any other kind
BindErrors == {"AddrInUse", "Other"}

VARIABLES
    proto,                 \* which mapper runs: TcpMapper or UdpMapper
    check_per_tick,        \* UdpMapper.check_per_tick
    pc,                    \* the await the run future is suspended at
    current_ip,            \* run's local current_ip (the spec's last_public)
    retry_cnt,             \* run's local retry_cnt
    cnt,                   \* UdpMapper::keepalive's local cnt
    consecutive_failures,  \* UdpMapper::keepalive's local consecutive_failures
    ka_res,                \* what the keepalive() call returned ("none": not yet)
    result,                \* what run returned (NoResult while it runs)
    calls,                 \* history: the addresses on_change was called with
    probes,                \* history: the results of the successful STUN probes
    fails,                 \* history: failed outer iterations since the last good setup
    recovered,             \* history: a setup succeeded right after a failed iteration
    last_ka,               \* history: what the last finished TCP keepalive() returned
    ticks,                 \* history: ticks of the UDP keepalive loop (up to MaxTicks)
    tick_probes,           \* history: how many of those ticks were STUN probes
    op_fails,              \* history: failed probes and sends in a row in that loop
    probe_fails,           \* history: failed periodic probes in a row (up to RETRY_LTD)
    local_port,            \* the port of LocalAddr.local_addr (AnyPort: 0)
    ka_sock,               \* local port of the keepalive socket (NoSocket: not open)
    st_sock,               \* local port of the STUN socket (NoSocket: not open)
    n_open,                \* history: sockets built and not yet dropped
    info_local,            \* history: the local port in the last MappingInfo
    tick_cnt,              \* history: cnt as the tick under way began
    dgram,                 \* the keepalive datagram of the tick under way (NoDgram: none)
    stun_kind,             \* RemoteAddr.kind of the STUN endpoint: host or resolved
    dns,                   \* the address the DNS returns now for the STUN host
    addr_st,               \* the local addr_st / stun_addr of the setup under way
    conn_st,               \* history: the address the STUN socket was last connected to
    conn_prev,             \* history: the address of the connect before that one
    st_pc,                 \* the await a STUN discover call is at ("idle": none runs)
    st_tx,                 \* the transaction id build_request gave the call
    st_resp,               \* the response the STUN server sends to the call
    st_hdr,                \* tcp_socket_addr's local header, once read
    st_out,                \* what the discover call returned ("none": not yet)
    st_io,                 \* history: how the awaited I/O that failed ended
    st_n,                  \* history: the number of the probe (1: the first)
    st_prev,               \* history: the last probe that read a datagram
    st_queue,              \* the datagrams queued on the connected STUN socket
    cf_path,               \* where the configuration comes from (ConfigPaths)
    cf_iface,              \* the interface name of --iface or of the task entry
    cf_default_iface,      \* the interface name of the batch file's [default]
    cf_force,              \* the force-reuse flag of the configuration
    sk_feature,            \* the build has cfg(feature = "reuse_port") on linux
    sk_pc,                 \* the step configuration and LocalAddr::socket are at
    sk_iface,              \* LocalAddr.iface (NoIface: None)
    sk_reuse_port,         \* LocalAddr.reuse_port
    sk_binds,              \* history: calls of socket.bind
    sk_reclaims,           \* history: calls of reuse_port::force_reuse_port
    sk_err1,               \* history: the kind the first bind failed with
    sk_env,                \* history: what force_reuse_port met in /proc
    sk_out,                \* what configuration or socket returned
    sup_mode,              \* single task (proc) or batch (handle::run)
    sup_pc,                \* the supervisor: "running", "returned" or "panicked"
    sup_out,               \* what the supervisor returned ("none": not yet)
    t_pc,                  \* per task: running, sleeping, ended, panicked, absent
    t_err,                 \* per task: the error the last run call returned
    t_slept,               \* per task, history: seconds slept before this run call
    t_joined,              \* the ended tasks join_next has returned
    tk_mode,               \* whose keepalive loop is timed: "tcp" or "udp"
    tk_pc,                 \* the loop waits for its timer or does a tick's work
    tk_now,                \* the clock
    tk_due,                \* the deadline of the timer the loop waits for
    tk_sched,              \* history: the deadline the last tick was due at
    tk_n                   \* history: ticks begun (up to MaxTicks)

\* the variables of the STUN exchange
stun_vars == <<st_pc, st_tx, st_resp, st_hdr, st_out, st_io, st_n, st_prev, st_queue>>

\* the variables of configuration and of LocalAddr::socket
sock_vars == <<cf_path, cf_iface, cf_default_iface, cf_force, sk_feature,
               sk_pc, sk_iface, sk_reuse_port, sk_binds, sk_reclaims,
               sk_err1, sk_env, sk_out>>

\* the variables of the supervisors
sup_vars == <<sup_mode, sup_pc, sup_out, t_pc, t_err, t_slept, t_joined>>

\* the variables of the timed keepalive loops
tick_vars == <<tk_mode, tk_pc, tk_now, tk_due, tk_sched, tk_n>>

\* the variables of the controller
run_vars == <<proto, check_per_tick, pc, current_ip, retry_cnt, cnt,
              consecutive_failures, ka_res, result, calls, probes, fails,
              recovered, last_ka, ticks, tick_probes, op_fails, probe_fails,
              local_port, ka_sock, st_sock, n_open, info_local,
              tick_cnt, dgram, stun_kind, dns, addr_st, conn_st, conn_prev>>

vars == <<run_vars, stun_vars, sock_vars, sup_vars, tick_vars>>

\* what a step of the controller, of a discover call, of LocalAddr::socket,
\* of a supervisor leaves alone
beside_run == <<stun_vars, sock_vars, sup_vars, tick_vars>>
beside_stun == <<run_vars, sock_vars, sup_vars, tick_vars>>
beside_sock == <<run_vars, stun_vars, sup_vars, tick_vars>>
beside_sup == <<run_vars, stun_vars, sock_vars, tick_vars>>
beside_tick == <<run_vars, stun_vars, sock_vars, sup_vars>>

(***************************************************************************)
(* Sockets.                                                                *)
(***************************************************************************)
socks == <<ka_sock, st_sock, n_open>>

\* `socket.bind(&self.local_addr.into())` in LocalAddr::socket: the local ports
\* the new socket may end up bound to.  SO_REUSEADDR and SO_REUSEPORT are set
\* on every socket, so a port assigned for port 0 may or may not be one that
\* another socket of the controller is bound to.
BoundPorts(port) == IF port = AnyPort THEN EphemeralPorts ELSE {port}

\* LocalAddr::socket_from_addr(addr, p): as socket, but binds addr
SocketFromAddr(port) == BoundPorts(port)

\* faulty variant of StunBindAddr: the second socket binds the configured address
StunBindAddrConfigured(configured, local_addr) == configured

\* the address TcpMapperReactor::new binds the second socket to: local_addr,
\* which it read from socket_ka after the bind
StunBindAddr(configured, local_addr) == local_addr

\* the controller's sockets are dropped
CloseAll ==
    /\ ka_sock' = NoSocket
    /\ st_sock' = NoSocket
    /\ n_open' = n_open - Cardinality({s \in {"ka", "st"} :
                      (IF s = "ka" THEN ka_sock ELSE st_sock) # NoSocket})

(***************************************************************************)
(* Pure pieces of run.                                                     *)
(***************************************************************************)
\* faulty variant of Changed: the comparison is dropped, every probe is reported
ChangedAlways(cur, pub) == TRUE

\* `Some(pub_addr) != current_ip`
Changed(cur, pub) == cur # pub

\* faulty variant of NewCurrentIp: `current_ip = Some(pub_addr)` is left out
NewCurrentIpStale(cur, pub) == cur

\* current_ip after a successful probe reporting pub
NewCurrentIp(cur, pub) == IF Changed(cur, pub) THEN pub ELSE cur

\* the handler's call log after a successful probe reporting pub
NewCalls(cs, cur, pub) == IF Changed(cur, pub) THEN Append(cs, pub) ELSE cs

\* faulty variant of RetryExhausted: `>` for `>=`
RetryExhaustedLate(n) == n > RETRY_LTD

\* `retry_cnt >= Self::RETRY_LTD`, `consecutive_failures >= Self::RETRY_LTD`
RetryExhausted(n) == n >= RETRY_LTD

\* faulty variant of InitCurrentIp: run starts with an address already recorded
InitCurrentIpSome == CHOOSE a \in Addrs : TRUE

\* `let mut current_ip = None;`
InitCurrentIp == NoAddr

(***************************************************************************)
(* The compare-and-notify block that follows every successful probe.       *)
(***************************************************************************)
Notify(pub) ==
    /\ current_ip' = NewCurrentIp(current_ip, pub)
    /\ calls' = NewCalls(calls, current_ip, pub)
    /\ probes' = Append(probes, pub)

\* no STUN exchange is modelled in detail: the outcome of a probe is an input
StunIdle ==
    /\ st_pc = "idle"
    /\ st_tx = <<>>
    /\ st_resp = <<>>
    /\ st_hdr = <<>>
    /\ st_out = "none"
    /\ st_io = "none"
    /\ st_n = 0
    /\ st_prev = 0
    /\ st_queue = <<>>

\* no configuration is being read and no socket built
SocketIdle ==
    /\ cf_path = "cli"
    /\ cf_iface = NoIface
    /\ cf_default_iface = NoIface
    /\ cf_force = FALSE
    /\ sk_feature = FALSE
    /\ sk_pc = "idle"
    /\ sk_iface = NoIface
    /\ sk_reuse_port = FALSE
    /\ sk_binds = 0
    /\ sk_reclaims = 0
    /\ sk_err1 = "none"
    /\ sk_env = <<>>
    /\ sk_out = <<"none">>

\* no supervisor is modelled: run is called once
SupIdle ==
    /\ sup_mode = "single"
    /\ sup_pc = "idle"
    /\ sup_out = "none"
    /\ t_pc = [t \in Tasks |-> "absent"]
    /\ t_err = [t \in Tasks |-> "none"]
    /\ t_slept = [t \in Tasks |-> 0]
    /\ t_joined = {}

\* no keepalive loop is timed
TickIdle ==
    /\ tk_mode = "none"
    /\ tk_pc = "idle"
    /\ tk_now = 0
    /\ tk_due = 0
    /\ tk_sched = 0
    /\ tk_n = 0

\* faulty variant of socket_addr: a Host endpoint is taken for a Resolved one,
\* so the address held from before is returned and no lookup is made
socket_addr_no_lookup(kind, addr, looked_up) ==
    addr

\* RemoteAddr::socket_addr: a Host endpoint awaits resolve_dns and returns the
\* address the lookup gives now (looked_up), a Resolved one returns the address
\* it holds; nothing is stored in either case
socket_addr(kind, addr, looked_up) ==
    CASE kind = "host" -> looked_up
      [] kind = "resolved" -> addr

\* the STUN endpoint is of the domain form and the answers of the DNS are not
\* told apart: every lookup returns the same address, written NoAddr
DnsIdle ==
    /\ stun_kind = "host"
    /\ dns = NoAddr

\* the locals of run and the histories, as run starts
RunInit ==
    /\ current_ip = InitCurrentIp
    /\ retry_cnt = 0
    /\ cnt = 0
    /\ consecutive_failures = 0
    /\ ka_res = "none"
    /\ result = NoResult
    /\ calls = <<>>
    /\ probes = <<>>
    /\ fails = 0
    /\ recovered = FALSE
    /\ last_ka = "none"
    /\ ticks = 0
    /\ tick_probes = 0
    /\ op_fails = 0
    /\ probe_fails = 0
    /\ ka_sock = NoSocket
    /\ st_sock = NoSocket
    /\ n_open = 0
    /\ info_local = NoSocket
    /\ tick_cnt = 0
    /\ addr_st = NoAddr
    /\ conn_st = NoAddr
    /\ conn_prev = NoAddr
    /\ dgram = NoDgram

Init ==
    /\ proto \in Protocols
    /\ check_per_tick \in (IF proto = "udp" THEN 1..MaxCheckPerTick ELSE {1})
    /\ pc = (IF proto = "tcp" THEN "tcp_sockets" ELSE "udp_sockets")
    /\ local_port \in LocalPorts
    /\ RunInit
    /\ DnsIdle
    /\ StunIdle
    /\ SocketIdle
    /\ SupIdle
    /\ TickIdle

(***************************************************************************)
(* TCP mode: TcpMapper::run, TcpMapperReactor::new, keepalive.             *)
(***************************************************************************)
\* faulty variant of TcpRunErr: the `!e.is_recoverable()` arm is left out
TcpRunErrRetryAll(e) ==
    /\ CloseAll
    /\ retry_cnt' = retry_cnt + 1
    /\ fails' = fails + 1
    /\ IF RetryExhausted(retry_cnt + 1)
       THEN pc' = "returned" /\ result' = e
       ELSE pc' = "tcp_backoff" /\ result' = result

\* TcpMapperReactor::new returns Err, dropping the sockets it built, and one of
\* the two Err arms of run's match is taken
TcpRunErr(e) ==
    /\ CloseAll
    /\ IF ~IsRecoverable(e)
       THEN /\ pc' = "returned"
            /\ result' = e
            /\ UNCHANGED <<retry_cnt, fails>>
       ELSE /\ retry_cnt' = retry_cnt + 1
            /\ fails' = fails + 1
            /\ IF RetryExhausted(retry_cnt + 1)
               THEN pc' = "returned" /\ result' = e
               ELSE pc' = "tcp_backoff" /\ result' = result

\* one `?` step of TcpMapperReactor::new: go on to next, or fail with an error
\* of errs, which run's match receives
TcpSetupStep(next, errs) ==
    \E ok \in BOOLEAN :
        IF ok
        THEN /\ pc' = next
             /\ UNCHANGED <<retry_cnt, result, fails>>
             /\ UNCHANGED socks
        ELSE \E e \in errs : TcpRunErr(e)

\* local.socket(Tcp), socket_ka.local_addr(), local.socket_from_addr(..)
TcpSockets ==
    /\ proto = "tcp"
    /\ pc = "tcp_sockets"
    /\ \/ \E local_addr \in BoundPorts(local_port) :
         \E st \in SocketFromAddr(StunBindAddr(local_port, local_addr)) :
            /\ ka_sock' = local_addr
            /\ st_sock' = st
            /\ n_open' = n_open + 2
            /\ pc' = "tcp_resolve"
            /\ UNCHANGED <<retry_cnt, result, fails>>
       \/ TcpRunErr("Socket")
    /\ addr_st' = NoAddr
    /\ UNCHANGED <<proto, check_per_tick, current_ip, cnt, consecutive_failures,
                   ka_res, calls, probes, recovered, last_ka, ticks, tick_probes,
                   op_fails, probe_fails, local_port, info_local, beside_run,
                   tick_cnt, stun_kind, dns, conn_st, conn_prev, dgram>>

\* the futures TcpMapperReactor::new has started and not finished while it is
\* suspended at p: try_join! polls both resolutions; each connect_remote and
\* tcp_socket_addr is awaited by itself, after the one before it has finished
TcpAwaiting(p) ==
    CASE p = "tcp_resolve" -> {"resolve_ka", "resolve_st"}
      [] p = "tcp_connect_ka" -> {"connect_ka"}
      [] p = "tcp_connect_st" -> {"connect_st"}
      [] p = "tcp_stun" -> {"stun"}
      [] OTHER -> {}

\* try_join!(ka_remote.socket_addr(), stun.socket_addr())
TcpResolve ==
    /\ proto = "tcp"
    /\ pc = "tcp_resolve"
    /\ TcpSetupStep("tcp_connect_ka", DnsErrors)
    /\ addr_st' = IF pc' = "tcp_connect_ka"
                  THEN socket_addr(stun_kind, ResolvedAddr, dns)
                  ELSE addr_st
    /\ UNCHANGED <<proto, check_per_tick, current_ip, cnt, consecutive_failures,
                   ka_res, calls, probes, recovered, last_ka, ticks, tick_probes,
                   op_fails, probe_fails, local_port, info_local, beside_run,
                   tick_cnt, stun_kind, dns, conn_st, conn_prev, dgram>>

\* connect_remote(socket_ka, addr_ka)
TcpConnectKa ==
    /\ proto = "tcp"
    /\ pc = "tcp_connect_ka"
    /\ TcpSetupStep("tcp_connect_st", {"Connection"})
    /\ UNCHANGED <<proto, check_per_tick, current_ip, cnt, consecutive_failures,
                   ka_res, calls, probes, recovered, last_ka, ticks, tick_probes,
                   op_fails, probe_fails, local_port, info_local, beside_run,
                   tick_cnt, stun_kind, dns, addr_st, conn_st, conn_prev, dgram>>

\* connect_remote(socket_st, addr_st)
TcpConnectSt ==
    /\ proto = "tcp"
    /\ pc = "tcp_connect_st"
    /\ TcpSetupStep("tcp_stun", {"Connection"})
    /\ conn_st' = IF pc' = "tcp_stun" THEN addr_st ELSE conn_st
    /\ conn_prev' = IF pc' = "tcp_stun" THEN conn_st ELSE conn_prev
    /\ UNCHANGED <<proto, check_per_tick, current_ip, cnt, consecutive_failures,
                   ka_res, calls, probes, recovered, last_ka, ticks, tick_probes,
                   op_fails, probe_fails, local_port, info_local, beside_run,
                   tick_cnt, stun_kind, dns, addr_st, dgram>>

\* faulty variant of TcpSetupOk: the compare-and-notify block is left out of
\* the Ok arm
TcpSetupOkSilent(pub) ==
    /\ st_sock' = NoSocket
    /\ n_open' = n_open - 1
    /\ UNCHANGED ka_sock
    /\ retry_cnt' = 0
    /\ fails' = 0
    /\ recovered' = (recovered \/ fails > 0)
    /\ probes' = Append(probes, pub)
    /\ UNCHANGED <<current_ip, calls, info_local>>
    /\ pc' = "tcp_keepalive"
    /\ UNCHANGED result

\* faulty variant of TcpSetupOk: `retry_cnt = 0` is left out
TcpSetupOkKeepRetry(pub) ==
    /\ st_sock' = NoSocket
    /\ n_open' = n_open - 1
    /\ UNCHANGED ka_sock
    /\ UNCHANGED retry_cnt
    /\ fails' = 0
    /\ recovered' = (recovered \/ fails > 0)
    /\ Notify(pub)
    /\ info_local' = IF Changed(current_ip, pub) THEN ka_sock ELSE info_local
    /\ pc' = "tcp_keepalive"
    /\ UNCHANGED result

\* tcp_socket_addr returns Ok and drops the stream it was given; new returns
\* the actor (tcp_stream, local_addr, pub_addr); the Ok arm of run's match, up
\* to the call of keepalive: on_change gets MappingInfo::new(pub_addr,
\* actor.local_addr)
TcpSetupOk(pub) ==
    /\ st_sock' = NoSocket
    /\ n_open' = n_open - 1
    /\ UNCHANGED ka_sock
    /\ retry_cnt' = 0
    /\ fails' = 0
    /\ recovered' = (recovered \/ fails > 0)
    /\ Notify(pub)
    /\ info_local' = IF Changed(current_ip, pub) THEN ka_sock ELSE info_local
    /\ pc' = "tcp_keepalive"
    /\ UNCHANGED result

\* crate::stun::tcp_socket_addr(stun_stream), the last step of new
TcpStun ==
    /\ proto = "tcp"
    /\ pc = "tcp_stun"
    /\ \/ \E pub \in Addrs :
            /\ Len(probes) < MaxProbes
            /\ TcpSetupOk(pub)
       \/ \E e \in StunErrors :
            /\ TcpRunErr(e)
            /\ UNCHANGED <<current_ip, calls, probes, recovered, info_local>>
    /\ UNCHANGED <<proto, check_per_tick, cnt, consecutive_failures, ka_res,
                   last_ka, ticks, tick_probes, op_fails, probe_fails, local_port,
                   beside_run, tick_cnt, stun_kind, dns, addr_st, conn_st,
                   conn_prev, dgram>>

\* faulty variant of TcpKeepaliveReturn: the actor outlives the Ok arm, its
\* stream is still open when the next iteration builds its sockets
TcpKeepaliveReturnLeak(r) ==
    /\ ka_res' = r
    /\ last_ka' = r
    /\ pc' = "tcp_backoff"
    /\ UNCHANGED <<retry_cnt, result>>
    /\ UNCHANGED socks

\* `let _ = keepalive(..).await;` : the value keepalive returns is dropped; the
\* Ok arm ends and drops the actor with its tcp_stream
TcpKeepaliveReturn(r) ==
    /\ ka_res' = r
    /\ last_ka' = r
    /\ pc' = "tcp_backoff"
    /\ UNCHANGED <<retry_cnt, result>>
    /\ CloseAll

\* keepalive's select!, the interval.tick() branch: write_all(request)
TcpKeepaliveTick ==
    /\ proto = "tcp"
    /\ pc = "tcp_keepalive"
    /\ \E written \in BOOLEAN :
        IF written
        THEN UNCHANGED <<pc, ka_res, last_ka, retry_cnt, result, ka_sock, st_sock,
                         n_open>>
        ELSE TcpKeepaliveReturn("Err")
    /\ UNCHANGED <<proto, check_per_tick, current_ip, cnt, consecutive_failures,
                   calls, probes, fails, recovered, ticks, tick_probes, op_fails,
                   probe_fails, local_port, info_local, beside_run, tick_cnt,
                   stun_kind, dns, addr_st, conn_st, conn_prev, dgram>>

\* keepalive's select!, the stream.read(&mut buf) branch
TcpKeepaliveRead ==
    /\ proto = "tcp"
    /\ pc = "tcp_keepalive"
    /\ \E r \in {"data", "fin", "err"} :
        CASE r = "data" -> UNCHANGED <<pc, ka_res, last_ka, retry_cnt, result,
                                       ka_sock, st_sock, n_open>>
          [] r = "fin"  -> TcpKeepaliveReturn("Ok")
          [] r = "err"  -> TcpKeepaliveReturn("Err")
    /\ UNCHANGED <<proto, check_per_tick, current_ip, cnt, consecutive_failures,
                   calls, probes, fails, recovered, ticks, tick_probes, op_fails,
                   probe_fails, local_port, info_local, beside_run, tick_cnt,
                   stun_kind, dns, addr_st, conn_st, conn_prev, dgram>>

\* faulty variant of TcpBackoff: current_ip is forgotten between two iterations,
\* as if it were declared inside the loop
TcpBackoffForgets ==
    /\ proto = "tcp"
    /\ pc = "tcp_backoff"
    /\ pc' = "tcp_sockets"
    /\ ka_res' = "none"
    /\ current_ip' = NoAddr
    /\ UNCHANGED <<proto, check_per_tick, retry_cnt, cnt, consecutive_failures,
                   result, calls, probes, fails, recovered, last_ka, ticks,
                   tick_probes, op_fails, probe_fails, local_port, ka_sock, st_sock,
                   n_open, info_local, beside_run, tick_cnt, stun_kind, dns,
                   addr_st, conn_st, conn_prev, dgram>>

\* `tokio::time::sleep(Duration::from_secs(5)).await;` then the next iteration
TcpBackoff ==
    /\ proto = "tcp"
    /\ pc = "tcp_backoff"
    /\ pc' = "tcp_sockets"
    /\ ka_res' = "none"
    /\ UNCHANGED <<proto, check_per_tick, current_ip, retry_cnt, cnt,
                   consecutive_failures, result, calls, probes, fails, recovered,
                   last_ka, ticks, tick_probes, op_fails, probe_fails, local_port,
                   ka_sock, st_sock, n_open, info_local, beside_run, tick_cnt,
                   stun_kind, dns, addr_st, conn_st, conn_prev, dgram>>

(***************************************************************************)
(* UDP mode: UdpMapper::run and UdpMapper::keepalive.                      *)
(***************************************************************************)
\* run returns Err(e), at a `?` or in an Err arm; its local sockets are dropped
UdpReturn(e) ==
    /\ pc' = "returned"
    /\ result' = e
    /\ CloseAll

\* the Err arms of run's match on self.keepalive(..)
UdpRunErr(e) ==
    /\ ka_res' = e
    /\ IF e = "Socket"
       THEN /\ UdpReturn(e)
            /\ UNCHANGED retry_cnt
       ELSE /\ retry_cnt' = retry_cnt + 1
            /\ IF RetryExhausted(retry_cnt + 1)
               THEN UdpReturn(e)
               ELSE pc' = "udp_backoff" /\ result' = result /\ UNCHANGED socks

\* the two self.local.udp_socket(..).map_err(Error::Socket)? before the loop
UdpSockets ==
    /\ proto = "udp"
    /\ pc = "udp_sockets"
    /\ \E ok \in BOOLEAN :
        IF ok
        THEN /\ st_sock' \in BoundPorts(local_port)
             /\ ka_sock' \in BoundPorts(local_port)
             /\ n_open' = n_open + 2
             /\ pc' = "udp_resolve"
             /\ UNCHANGED result
        ELSE UdpReturn("Socket")
    /\ UNCHANGED <<proto, check_per_tick, current_ip, retry_cnt, cnt,
                   consecutive_failures, ka_res, calls, probes, fails, recovered,
                   last_ka, ticks, tick_probes, op_fails, probe_fails, local_port,
                   info_local, beside_run, tick_cnt, stun_kind, dns, addr_st,
                   conn_st, conn_prev, dgram>>

\* `let stun_addr = self.stun.socket_addr().await?;`
UdpResolve ==
    /\ proto = "udp"
    /\ pc = "udp_resolve"
    /\ \E ok \in (IF stun_kind = "host" THEN BOOLEAN ELSE {TRUE}) :
        IF ok
        THEN /\ pc' = "udp_connect"
             /\ addr_st' = socket_addr(stun_kind, ResolvedAddr, dns)
             /\ UNCHANGED <<result, fails, ka_sock, st_sock, n_open>>
        ELSE /\ \E e \in DnsErrors : UdpReturn(e)
             /\ fails' = fails + 1
             /\ UNCHANGED addr_st
    /\ UNCHANGED <<proto, check_per_tick, current_ip, retry_cnt, cnt,
                   consecutive_failures, ka_res, calls, probes, recovered, last_ka,
                   ticks, tick_probes, op_fails, probe_fails, local_port,
                   info_local, beside_run, tick_cnt, stun_kind, dns, conn_st,
                   conn_prev, dgram>>

\* `StunUdpSocket::new(&socket_st, stun_addr).await.map_err(Error::Connection)?`
UdpConnect ==
    /\ proto = "udp"
    /\ pc = "udp_connect"
    /\ \E ok \in BOOLEAN :
        IF ok
        THEN /\ pc' = "udp_probe0"
             /\ conn_st' = addr_st
             /\ conn_prev' = conn_st
             /\ UNCHANGED <<result, fails, ka_sock, st_sock, n_open>>
        ELSE /\ UdpReturn("Connection")
             /\ fails' = fails + 1
             /\ UNCHANGED <<conn_st, conn_prev>>
    /\ UNCHANGED <<proto, check_per_tick, current_ip, retry_cnt, cnt,
                   consecutive_failures, ka_res, calls, probes, recovered, last_ka,
                   ticks, tick_probes, op_fails, probe_fails, local_port,
                   info_local, beside_run, tick_cnt, stun_kind, dns, addr_st, dgram>>

\* keepalive: the initial `udp_socket_addr(socket_st).await?` and the notify block
UdpProbe0 ==
    /\ proto = "udp"
    /\ pc = "udp_probe0"
    /\ \/ \E pub \in Addrs :
            /\ Len(probes) < MaxProbes
            /\ Notify(pub)
            /\ cnt' = 0
            /\ consecutive_failures' = 0
            /\ fails' = 0
            /\ recovered' = (recovered \/ fails > 0)
            /\ pc' = "udp_tick"
            /\ ticks' = 0
            /\ tick_probes' = 0
            /\ op_fails' = 0
            /\ probe_fails' = 0
            /\ UNCHANGED <<retry_cnt, result, ka_res, ka_sock, st_sock, n_open>>
       \/ \E e \in StunErrors :
            /\ UdpRunErr(e)
            /\ fails' = fails + 1
            /\ UNCHANGED <<current_ip, calls, probes, cnt, consecutive_failures,
                           recovered, ticks, tick_probes, op_fails, probe_fails>>
    /\ tick_cnt' = cnt'
    /\ UNCHANGED <<proto, check_per_tick, last_ka, local_port, info_local,
                   beside_run, stun_kind, dns, addr_st, conn_st, conn_prev, dgram>>

\* the tick counters after one more tick that is a probe (isProbe) or a send
CountTick(isProbe) ==
    IF ticks < MaxTicks
    THEN /\ ticks' = ticks + 1
         /\ tick_probes' = tick_probes + (IF isProbe THEN 1 ELSE 0)
    ELSE UNCHANGED <<ticks, tick_probes>>

\* faulty variant of UdpTick: `cnt > check_per_tick` for `cnt >= check_per_tick`
UdpTickOffByOne ==
    /\ proto = "udp"
    /\ pc = "udp_tick"
    /\ IF cnt + 1 > check_per_tick
       THEN cnt' = 0 /\ pc' = "udp_probe" /\ CountTick(TRUE)
       ELSE cnt' = cnt + 1 /\ pc' = "udp_send" /\ CountTick(FALSE)
    /\ tick_cnt' = cnt
    /\ dgram' = NoDgram
    /\ UNCHANGED <<proto, check_per_tick, current_ip, retry_cnt,
                   consecutive_failures, ka_res, result, calls, probes, fails,
                   recovered, last_ka, op_fails, probe_fails, local_port, ka_sock,
                   st_sock, n_open, info_local, beside_run, stun_kind, dns, addr_st,
                   conn_st, conn_prev>>

\* keepalive's loop: `sleep(self.interval).await; cnt += 1;` and the branch on cnt
UdpTick ==
    /\ proto = "udp"
    /\ pc = "udp_tick"
    /\ IF cnt + 1 >= check_per_tick
       THEN cnt' = 0 /\ pc' = "udp_probe" /\ CountTick(TRUE)
       ELSE cnt' = cnt + 1 /\ pc' = "udp_send" /\ CountTick(FALSE)
    /\ tick_cnt' = cnt
    /\ dgram' = NoDgram
    /\ UNCHANGED <<proto, check_per_tick, current_ip, retry_cnt,
                   consecutive_failures, ka_res, result, calls, probes, fails,
                   recovered, last_ka, op_fails, probe_fails, local_port, ka_sock,
                   st_sock, n_open, info_local, beside_run, stun_kind, dns, addr_st,
                   conn_st, conn_prev>>

\* faulty variant of UdpLoopFailure: no failure is tolerated, the first one
\* leaves the loop
UdpLoopFailureEager(e) ==
    /\ UdpRunErr(e)
    /\ fails' = fails + 1
    /\ cnt' = 0
    /\ consecutive_failures' = 0
    /\ ticks' = 0
    /\ tick_probes' = 0

\* a failed probe or send inside keepalive's loop: count it, escalate at the limit
UdpLoopFailure(e) ==
    IF RetryExhausted(consecutive_failures + 1)
    THEN /\ UdpRunErr(e)
         /\ fails' = fails + 1
         /\ cnt' = 0
         /\ consecutive_failures' = 0
         /\ ticks' = 0
         /\ tick_probes' = 0
    ELSE /\ consecutive_failures' = consecutive_failures + 1
         /\ pc' = "udp_tick"
         /\ UNCHANGED <<retry_cnt, result, fails, cnt, ticks, tick_probes, ka_res,
                           ka_sock, st_sock, n_open>>

\* keepalive's loop: the periodic `udp_socket_addr(socket_st).await`
UdpProbe ==
    /\ proto = "udp"
    /\ pc = "udp_probe"
    /\ \/ \E pub \in Addrs :
            /\ Len(probes) < MaxProbes
            /\ consecutive_failures' = 0
            /\ Notify(pub)
            /\ pc' = "udp_tick"
            /\ op_fails' = 0
            /\ probe_fails' = 0
            /\ UNCHANGED <<retry_cnt, result, fails, cnt, ticks, tick_probes, ka_res,
                           ka_sock, st_sock, n_open>>
       \/ \E e \in StunErrors :
            /\ UdpLoopFailure(e)
            /\ op_fails' = op_fails + 1
            /\ probe_fails' = IF probe_fails < RETRY_LTD
                              THEN probe_fails + 1 ELSE probe_fails
            /\ UNCHANGED <<current_ip, calls, probes>>
    /\ tick_cnt' = cnt'
    /\ UNCHANGED <<proto, check_per_tick, recovered, last_ka, local_port,
                   info_local, beside_run, stun_kind, dns, addr_st, conn_st,
                   conn_prev, dgram>>

\* faulty variant of KeepaliveDatagram: the datagram leaves the STUN socket
KeepaliveDatagramFromStun(stun_addr) ==
    [sock |-> "socket_st", to |-> stun_addr]

\* the datagram of `socket_ka.send_to(b"nya", stun_addr)`: the socket it
\* leaves and the address it is sent to
KeepaliveDatagram(stun_addr) ==
    [sock |-> "socket_ka", to |-> stun_addr]

\* keepalive's loop: `socket_ka.send_to(b"nya", stun_addr).await`
UdpSend ==
    /\ proto = "udp"
    /\ pc = "udp_send"
    /\ \E sent \in BOOLEAN :
        IF sent
        THEN /\ consecutive_failures' = 0
             /\ pc' = "udp_tick"
             /\ op_fails' = 0
             /\ dgram' = KeepaliveDatagram(addr_st)
             /\ UNCHANGED <<retry_cnt, result, fails, cnt, ticks, tick_probes, ka_res,
                           ka_sock, st_sock, n_open>>
        ELSE /\ UdpLoopFailure("Keepalive")
             /\ op_fails' = op_fails + 1
             /\ UNCHANGED dgram
    /\ tick_cnt' = cnt'
    /\ UNCHANGED <<proto, check_per_tick, current_ip, calls, probes, recovered,
                   last_ka, probe_fails, local_port, info_local, beside_run,
                   stun_kind, dns, addr_st, conn_st, conn_prev>>

\* faulty variant of UdpBackoff: the sockets are dropped and the next iteration
\* builds new ones, as the TCP loop does
UdpBackoffRebuilds ==
    /\ proto = "udp"
    /\ pc = "udp_backoff"
    /\ pc' = "udp_sockets"
    /\ CloseAll
    /\ ka_res' = "none"
    /\ op_fails' = 0
    /\ probe_fails' = 0
    /\ UNCHANGED <<proto, check_per_tick, current_ip, retry_cnt, cnt,
                   consecutive_failures, result, calls, probes, fails, recovered,
                   last_ka, ticks, tick_probes, local_port, info_local,
                   beside_run, tick_cnt, stun_kind, dns, addr_st, conn_st,
                   conn_prev, dgram>>

\* `tokio::time::sleep(Duration::from_secs(5)).await;` then the next iteration
UdpBackoff ==
    /\ proto = "udp"
    /\ pc = "udp_backoff"
    /\ pc' = "udp_resolve"
    /\ ka_res' = "none"
    /\ op_fails' = 0
    /\ probe_fails' = 0
    /\ UNCHANGED <<proto, check_per_tick, current_ip, retry_cnt, cnt,
                   consecutive_failures, result, calls, probes, fails, recovered,
                   last_ka, ticks, tick_probes, local_port, ka_sock, st_sock,
                   n_open, info_local, beside_run, tick_cnt, stun_kind, dns,
                   addr_st, conn_st, conn_prev, dgram>>

(***************************************************************************)
(* The task driving run is cancelled: the future is dropped at the await   *)
(* it is suspended at, and nothing is returned.                            *)
(***************************************************************************)
Cancel ==
    /\ pc \notin {"returned", "cancelled"}
    /\ pc' = "cancelled"
    /\ CloseAll
    /\ UNCHANGED <<proto, check_per_tick, current_ip, retry_cnt, cnt,
                   consecutive_failures, ka_res, result, calls, probes, fails,
                   recovered, last_ka, ticks, tick_probes, op_fails, probe_fails,
                   local_port, info_local, beside_run, tick_cnt, stun_kind, dns,
                   addr_st, conn_st, conn_prev, dgram>>

Next ==
    \/ TcpSockets
    \/ TcpResolve
    \/ TcpConnectKa
    \/ TcpConnectSt
    \/ TcpStun
    \/ TcpKeepaliveTick
    \/ TcpKeepaliveRead
    \/ TcpBackoff
    \/ UdpSockets
    \/ UdpResolve
    \/ UdpConnect
    \/ UdpProbe0
    \/ UdpTick
    \/ UdpProbe
    \/ UdpSend
    \/ UdpBackoff
    \/ Cancel

Spec == Init /\ [][Next]_vars

(***************************************************************************)
(* The controller with a DNS whose answer for the STUN host changes while  *)
(* the mapper runs, and with a STUN endpoint of either form.  The mapper   *)
(* binds the fixed port; its steps are the actions of Spec.                *)
(***************************************************************************)
DnsInit ==
    /\ proto \in Protocols
    /\ check_per_tick = (IF proto = "udp" THEN MaxCheckPerTick ELSE 1)
    /\ pc = (IF proto = "tcp" THEN "tcp_sockets" ELSE "udp_sockets")
    /\ local_port = FixedPort
    /\ RunInit
    /\ stun_kind \in RemoteKinds
    /\ dns \in DnsAnswers
    /\ StunIdle
    /\ SocketIdle
    /\ SupIdle
    /\ TickIdle

\* the environment: the record of the STUN host changes; the mapper has no
\* part in it and learns of it at its next resolve_dns only
DnsChange ==
    /\ pc \notin {"returned", "cancelled"}
    /\ \E a \in DnsAnswers \ {dns} : dns' = a
    /\ UNCHANGED <<proto, check_per_tick, pc, current_ip, retry_cnt, cnt,
                   consecutive_failures, ka_res, result, calls, probes, fails,
                   recovered, last_ka, ticks, tick_probes, op_fails, probe_fails,
                   local_port, ka_sock, st_sock, n_open, info_local, beside_run,
                   tick_cnt, stun_kind, addr_st, conn_st, conn_prev, dgram>>

DnsNext ==
    \/ Next
    \/ DnsChange

SpecDns == DnsInit /\ [][DnsNext]_vars

(***************************************************************************)
(* The controller under its supervisor: when run has returned a            *)
(* recoverable error, proc and run_task sleep and call run again on the    *)
(* same mapper with the same handler.  The histories calls and probes are  *)
(* what the handler has seen and go on over the calls of run.              *)
(***************************************************************************)
RestartInit ==
    /\ Init
    /\ local_port = FixedPort
    /\ check_per_tick = (IF proto = "udp" THEN MaxCheckPerTick ELSE 1)

\* faulty variant of SupRestart: current_ip and retry_cnt outlive the call
SupRestartKeepsLocals ==
    /\ pc = "returned"
    /\ IsRecoverable(result)
    /\ pc' = (IF proto = "tcp" THEN "tcp_sockets" ELSE "udp_sockets")
    /\ result' = NoResult
    /\ ka_res' = "none"
    /\ fails' = 0
    /\ recovered' = FALSE
    /\ last_ka' = "none"
    /\ ticks' = 0
    /\ tick_probes' = 0
    /\ op_fails' = 0
    /\ probe_fails' = 0
    /\ info_local' = NoSocket
    /\ tick_cnt' = 0
    /\ UNCHANGED <<proto, check_per_tick, current_ip, retry_cnt, cnt,
                   consecutive_failures, calls, probes, local_port, ka_sock,
                   st_sock, n_open, beside_run, dgram, stun_kind, dns, addr_st,
                   conn_st, conn_prev>>

\* the Err(e) if e.is_recoverable() arm of the supervisor, its sleep, and the
\* entry of the next mapper.run(handler): `let mut current_ip = None;
\* let mut retry_cnt = 0usize;`
SupRestart ==
    /\ pc = "returned"
    /\ IsRecoverable(result)
    /\ pc' = (IF proto = "tcp" THEN "tcp_sockets" ELSE "udp_sockets")
    /\ current_ip' = InitCurrentIp
    /\ retry_cnt' = 0
    /\ result' = NoResult
    /\ ka_res' = "none"
    /\ fails' = 0
    /\ recovered' = FALSE
    /\ last_ka' = "none"
    /\ ticks' = 0
    /\ tick_probes' = 0
    /\ op_fails' = 0
    /\ probe_fails' = 0
    /\ info_local' = NoSocket
    /\ tick_cnt' = 0
    /\ UNCHANGED <<proto, check_per_tick, cnt, consecutive_failures, calls,
                   probes, local_port, ka_sock, st_sock, n_open, beside_run,
                   dgram, stun_kind, dns, addr_st, conn_st, conn_prev>>

RestartNext ==
    \/ Next
    \/ SupRestart

SpecRestart == RestartInit /\ [][RestartNext]_vars

(***************************************************************************)
(* The STUN client, stun.rs.  A byte is a number in 0..255, a message is a *)
(* sequence of bytes; Rust's 0-based half-open ranges a..b are the         *)
(* elements a+1..b here.                                                   *)
(***************************************************************************)
MAGIC_COOKIE == 554869826
HEADER_SIZE == 20
MAX_BODY_SIZE == 2048
ATTR_MAPPED_ADDRESS == 1
ATTR_XOR_MAPPED_ADDRESS == 32
FAMILY_IPV4 == 1
FAMILY_IPV6 == 2
\* the length of a transaction id, `[u8; 12]`
TX_LEN == 12

\* u16::from_be_bytes([hi, lo])
FromBe16(hi, lo) == hi * 256 + lo

\* u16::to_be_bytes, u32::to_be_bytes
ToBe16(n) == <<n \div 256, n % 256>>
ToBe32(n) == <<n \div 16777216, (n \div 65536) % 256, (n \div 256) % 256, n % 256>>

\* a ^ b on the low n bits
RECURSIVE XorBits(_, _, _)
XorBits(a, b, n) ==
    IF n = 0 THEN 0 ELSE ((a + b) % 2) + 2 * XorBits(a \div 2, b \div 2, n - 1)

\* `for (a, k) in b.iter_mut().zip(&key) { *a ^= k; }`
XorBytes(b, key) == [i \in 1..Len(b) |-> XorBits(b[i], key[i], 8)]

\* data[from..to]
Slice(data, from, to) == SubSeq(data, from + 1, to)

\* faulty variant of Pad4: the length is not rounded up
Pad4None(n) == n

\* `(attr_len + 3) & !3`
Pad4(n) == ((n + 3) \div 4) * 4

\* SocketAddr::new(IpAddr::V4(..) / IpAddr::V6(..), port)
SockAddr(family, ip, port) == [family |-> family, ip |-> ip, port |-> port]

\* Result<SocketAddr, StunError>
Ok(addr) == <<"Ok", addr>>
Err(e) == <<"Err", e>>

\* faulty variant of parse_xor_mapped: the IPv6 key is the magic cookie
\* followed by zero bytes, not by the transaction id
parse_xor_mapped_cookie_key(value, tx_id) ==
    IF Len(value) < 8
    THEN Err("StunMalformed")
    ELSE LET family == value[2]
             port == XorBits(FromBe16(value[3], value[4]), MAGIC_COOKIE \div 65536, 16)
         IN  CASE family = FAMILY_IPV4 ->
                    Ok(SockAddr("V4", XorBytes(Slice(value, 4, 8), ToBe32(MAGIC_COOKIE)),
                                port))
               [] family = FAMILY_IPV6 /\ Len(value) >= 20 ->
                    Ok(SockAddr("V6", XorBytes(Slice(value, 4, 20),
                                               ToBe32(MAGIC_COOKIE) \o [i \in 1..TX_LEN |-> 0]),
                                port))
               [] OTHER -> Err("StunMalformed")

parse_xor_mapped(value, tx_id) ==
    IF Len(value) < 8
    THEN Err("StunMalformed")
    ELSE LET family == value[2]
             port == XorBits(FromBe16(value[3], value[4]), MAGIC_COOKIE \div 65536, 16)
         IN  CASE family = FAMILY_IPV4 ->
                    Ok(SockAddr("V4", XorBytes(Slice(value, 4, 8), ToBe32(MAGIC_COOKIE)),
                                port))
               [] family = FAMILY_IPV6 /\ Len(value) >= 20 ->
                    Ok(SockAddr("V6", XorBytes(Slice(value, 4, 20),
                                               ToBe32(MAGIC_COOKIE) \o tx_id),
                                port))
               [] OTHER -> Err("StunMalformed")

parse_mapped(value) ==
    IF Len(value) < 8
    THEN Err("StunMalformed")
    ELSE LET family == value[2]
             port == FromBe16(value[3], value[4])
         IN  CASE family = FAMILY_IPV4 -> Ok(SockAddr("V4", Slice(value, 4, 8), port))
               [] family = FAMILY_IPV6 /\ Len(value) >= 20 ->
                    Ok(SockAddr("V6", Slice(value, 4, 20), port))
               [] OTHER -> Err("StunMalformed")

\* parse_response's `while offset + 4 <= body.len()` loop and the Err after it
RECURSIVE parse_attrs(_, _, _)
parse_attrs(body, offset, tx_id) ==
    IF ~(offset + 4 <= Len(body))
    THEN Err("StunMalformed")
    ELSE LET attr_type == FromBe16(body[offset + 1], body[offset + 2])
             attr_len == FromBe16(body[offset + 3], body[offset + 4])
         IN  IF offset + 4 + attr_len > Len(body)
             THEN Err("StunMalformed")
             ELSE LET value == Slice(body, offset + 4, offset + 4 + attr_len)
                  IN  CASE attr_type = ATTR_XOR_MAPPED_ADDRESS ->
                             parse_xor_mapped(value, tx_id)
                        [] attr_type = ATTR_MAPPED_ADDRESS -> parse_mapped(value)
                        [] OTHER ->
                             parse_attrs(body, offset + 4 + Pad4(attr_len), tx_id)

\* faulty variant of parse_response: a message that is not a Binding Success
\* Response with the magic cookie is refused
parse_response_typed(data, tx_id) ==
    IF Len(data) < HEADER_SIZE
    THEN Err("StunMalformed")
    ELSE IF Slice(data, 0, 2) # <<1, 1>> \/ Slice(data, 4, 8) # ToBe32(MAGIC_COOKIE)
    THEN Err("StunMalformed")
    ELSE IF Slice(data, 8, 20) # tx_id
    THEN Err("StunTransactionIdMismatch")
    ELSE LET body_len == FromBe16(data[3], data[4])
         IN  IF HEADER_SIZE + body_len > Len(data)
             THEN Err("StunMalformed")
             ELSE parse_attrs(Slice(data, HEADER_SIZE, HEADER_SIZE + body_len), 0, tx_id)

parse_response(data, tx_id) ==
    IF Len(data) < HEADER_SIZE
    THEN Err("StunMalformed")
    ELSE IF Slice(data, 8, 20) # tx_id
    THEN Err("StunTransactionIdMismatch")
    ELSE LET body_len == FromBe16(data[3], data[4])
         IN  IF HEADER_SIZE + body_len > Len(data)
             THEN Err("StunMalformed")
             ELSE parse_attrs(Slice(data, HEADER_SIZE, HEADER_SIZE + body_len), 0, tx_id)

(***************************************************************************)
(* STUN responses a server may send, and their bytes on the wire.          *)
(***************************************************************************)
\* the transaction ids random_tx_id may return
TxIds == {[i \in 1..TX_LEN |-> (k * (16 * i + 1)) % 256] : k \in 1..NumTxIds}

\* the public addresses a server reports: an IPv4 one for each of Addrs, and
\* an IPv6 one
StunAddr(a) == SockAddr("V4", <<203, 0, 113, a>>, 40000 + a)
StunAddr6 == SockAddr("V6", [i \in 1..16 |-> 17 * (i - 1)], 50000)
StunAddrs == {StunAddr(a) : a \in Addrs} \cup {StunAddr6}

Zeros(n) == [i \in 1..n |-> 0]

\* one attribute as a server sends it: type, length, value, and zero bytes up
\* to the next 4-byte boundary
Attr(type, value) ==
    ToBe16(type) \o ToBe16(Len(value)) \o value
        \o Zeros((4 - (Len(value) % 4)) % 4)

\* the value of a MAPPED-ADDRESS attribute for addr (what parse_mapped reads)
MappedValue(addr) ==
    <<0, IF addr.family = "V4" THEN FAMILY_IPV4 ELSE FAMILY_IPV6>>
        \o ToBe16(addr.port) \o addr.ip

\* the value of a XOR-MAPPED-ADDRESS attribute for addr in a message with
\* transaction id tx_id (what parse_xor_mapped reads)
XorMappedValue(addr, tx_id) ==
    <<0, IF addr.family = "V4" THEN FAMILY_IPV4 ELSE FAMILY_IPV6>>
        \o ToBe16(XorBits(addr.port, MAGIC_COOKIE \div 65536, 16))
        \o XorBytes(addr.ip, ToBe32(MAGIC_COOKIE) \o tx_id)

\* lengths of the value of an attribute the client does not know
PadLens == {0, 1, MAX_BODY_SIZE - 16}

\* the attributes of a response: <<"xor", addr>>, <<"mapped", addr>>, or
\* <<"pad", n>>, an attribute of type 0x8022 (SOFTWARE) with n bytes of value
AttrDescs ==
    {<<"xor", a>> : a \in StunAddrs} \cup {<<"mapped", a>> : a \in StunAddrs}
        \cup {<<"pad", n>> : n \in PadLens}

AttrBytes(d, tx_id) ==
    CASE d[1] = "xor" -> Attr(ATTR_XOR_MAPPED_ADDRESS, XorMappedValue(d[2], tx_id))
      [] d[1] = "mapped" -> Attr(ATTR_MAPPED_ADDRESS, MappedValue(d[2]))
      [] d[1] = "pad" -> Attr(32802, Zeros(d[2]))

RECURSIVE BodyBytes(_, _)
BodyBytes(attrs, tx_id) ==
    IF attrs = <<>>
    THEN <<>>
    ELSE AttrBytes(Head(attrs), tx_id) \o BodyBytes(Tail(attrs), tx_id)

\* a response: its attributes; flip, the byte of the transaction id that
\* differs from the request's (0: none does); delta, by how much the length
\* field of the header exceeds the length of the body that is sent (below 0:
\* the declared body ends inside the last attribute; sent with a matching
\* transaction id only); hdr, the message type and cookie of its header:
\* those of a Binding Success Response, of a Binding Error Response (0x0111)
\* with the magic cookie, or of a Binding Success Response without the magic
\* cookie (the latter two with a matching transaction id and a true length
\* only)
Responses ==
    {r \in [attrs : UNION {[1..k -> AttrDescs] : k \in 0..MaxAttrs},
            flip : 0..TX_LEN,
            delta : {-4, 0, 1},
            hdr : {"success", "error", "no_cookie"}] :
        /\ r.delta < 0 => r.flip = 0
        /\ r.hdr # "success" => (r.flip = 0 /\ r.delta = 0)}

\* the length field of the header of a response with a body of n bytes
HeaderLen(n, delta) == IF n + delta < 0 THEN 0 ELSE n + delta

\* the bytes of response resp to a request with transaction id tx_id: the
\* header (type, length, cookie, transaction id), then the body
ResponseBytes(resp, tx_id) ==
    LET body == BodyBytes(resp.attrs, tx_id)
        tx == [i \in 1..TX_LEN |->
                 IF i = resp.flip THEN (tx_id[i] + 1) % 256 ELSE tx_id[i]]
        type == IF resp.hdr = "error" THEN <<1, 17>> ELSE <<1, 1>>
        cookie == IF resp.hdr = "no_cookie" THEN Zeros(4) ELSE ToBe32(MAGIC_COOKIE)
    IN  type \o ToBe16(HeaderLen(Len(body), resp.delta)) \o cookie \o tx \o body

(***************************************************************************)
(* One discover call, tcp_socket_addr or udp_socket_addr, on its own: the  *)
(* controller's variables stay as they are.                                *)
(***************************************************************************)
StunInit ==
    /\ proto \in Protocols
    /\ check_per_tick = 1
    /\ pc = "probe"
    /\ local_port = AnyPort
    /\ RunInit
    /\ DnsIdle
    /\ st_pc = "request"
    /\ st_tx = <<>>
    /\ st_resp \in Responses
    /\ st_hdr = <<>>
    /\ st_out = "none"
    /\ st_io = "none"
    /\ st_n = 1
    /\ st_prev = 0
    /\ st_queue = <<>>
    /\ SocketIdle
    /\ SupIdle
    /\ TickIdle

\* how an awaited I/O operation ends: it completes, it fails, or the deadline
\* of timeout(TIMEOUT_DURATION, ..) expires first
IoOutcomes == {"ok", "error", "timeout"}

\* `.map_err(std::io::Error::from)??` and the `?` on an I/O result: an expired
\* deadline and an I/O error both become StunError::Network
IoFailure(o) == Err("StunNetwork")

\* faulty variant of StunReturn: a failed call starts over with a new request
StunReturnRetries(r) ==
    IF r[1] = "Err"
    THEN st_pc' = "request" /\ UNCHANGED st_out
    ELSE st_out' = r /\ st_pc' = "done"

\* the discover call returns r
StunReturn(r) ==
    /\ st_out' = r
    /\ st_pc' = "done"

\* build_request, then stream.write_all(&request) (under the deadline) /
\* socket.send(&request) (not under it)
StunRequest ==
    /\ st_pc = "request"
    /\ \E tx_id \in TxIds :
        /\ st_tx' = tx_id
        /\ \E o \in (IF proto = "tcp" THEN IoOutcomes ELSE {"ok", "error"}) :
            /\ st_io' = (IF o = "ok" THEN st_io ELSE o)
            /\ IF o = "ok"
               THEN /\ st_pc' = (IF proto = "tcp" THEN "tcp_header" ELSE "udp_recv")
                    /\ UNCHANGED st_out
               ELSE StunReturn(IoFailure(o))
    /\ UNCHANGED <<beside_stun, st_resp, st_hdr, st_n, st_prev, st_queue>>

\* tcp_socket_addr: stream.read_exact(&mut header), the test of body_len,
\* and, for an empty body, parse_response
StunTcpHeader ==
    /\ proto = "tcp"
    /\ st_pc = "tcp_header"
    /\ \E o \in IoOutcomes :
        LET wire == ResponseBytes(st_resp, st_tx)
            header == Slice(wire, 0, HEADER_SIZE)
            body_len == FromBe16(header[3], header[4])
        IN  /\ st_io' = (IF o # "ok" THEN o
                         ELSE IF Len(wire) < HEADER_SIZE THEN "error" ELSE st_io)
            /\ IF o # "ok" \/ Len(wire) < HEADER_SIZE
               THEN StunReturn(IoFailure(o)) /\ UNCHANGED st_hdr
               ELSE IF body_len > MAX_BODY_SIZE
               THEN StunReturn(Err("StunResponseTooLarge")) /\ UNCHANGED st_hdr
               ELSE IF body_len > 0
               THEN st_hdr' = header /\ st_pc' = "tcp_body" /\ UNCHANGED st_out
               ELSE StunReturn(parse_response(header, st_tx)) /\ UNCHANGED st_hdr
    /\ UNCHANGED <<beside_stun, st_tx, st_resp, st_n, st_prev, st_queue>>

\* tcp_socket_addr: stream.read_exact(&mut buf[HEADER_SIZE..]), then
\* parse_response(&buf, &tx_id)
StunTcpBody ==
    /\ proto = "tcp"
    /\ st_pc = "tcp_body"
    /\ \E o \in IoOutcomes :
        LET wire == ResponseBytes(st_resp, st_tx)
            body_len == FromBe16(st_hdr[3], st_hdr[4])
            short == Len(wire) < HEADER_SIZE + body_len
        IN  /\ st_io' = (IF o # "ok" THEN o ELSE IF short THEN "error" ELSE st_io)
            /\ IF o # "ok" \/ short
               THEN StunReturn(IoFailure(o))
               ELSE StunReturn(parse_response(
                        st_hdr \o Slice(wire, HEADER_SIZE, HEADER_SIZE + body_len),
                        st_tx))
    /\ UNCHANGED <<beside_stun, st_tx, st_resp, st_hdr, st_n, st_prev, st_queue>>

\* a datagram on the socket: the response resp of the server to the request
\* of probe n, which carried the transaction id tx
Datagram(n, resp, tx) == [n |-> n, resp |-> resp, tx |-> tx]

\* faulty variant of RecvDatagram: the datagram that arrived last is read
RecvDatagramNewest(queue) == queue[Len(queue)]

\* socket.recv: the datagram that has been queued longest
RecvDatagram(queue) == Head(queue)

\* udp_socket_addr: socket.recv(&mut buf) into HEADER_SIZE + MAX_BODY_SIZE
\* bytes, the test of len, then parse_response(&buf[..len], &tx_id).  The
\* server's response to this probe arrives behind what is queued already;
\* the deadline expires on an empty queue only.
StunUdpRecv ==
    /\ proto = "udp"
    /\ st_pc = "udp_recv"
    /\ \E o \in IoOutcomes :
        LET arrived == Append(st_queue, Datagram(st_n, st_resp, st_tx))
            d == RecvDatagram(arrived)
            wire == ResponseBytes(d.resp, d.tx)
            len == IF Len(wire) < HEADER_SIZE + MAX_BODY_SIZE
                   THEN Len(wire) ELSE HEADER_SIZE + MAX_BODY_SIZE
        IN  /\ o = "timeout" => st_queue = <<>>
            /\ st_io' = (IF o = "ok" THEN st_io ELSE o)
            /\ st_queue' = (IF o = "ok" THEN Tail(arrived) ELSE st_queue)
            /\ st_prev' = (IF o = "ok" THEN st_n ELSE st_prev)
            /\ IF o # "ok"
               THEN StunReturn(IoFailure(o))
               ELSE IF len < HEADER_SIZE
               THEN StunReturn(Err("StunMalformed"))
               ELSE StunReturn(parse_response(Slice(wire, 0, len), st_tx))
    /\ UNCHANGED <<beside_stun, st_tx, st_resp, st_hdr, st_n>>

StunNext ==
    \/ StunRequest
    \/ StunTcpHeader
    \/ StunTcpBody
    \/ StunUdpRecv

SpecStun == StunInit /\ [][StunNext]_vars

(***************************************************************************)
(* The probes of one UDP keepalive, one after the other on the same        *)
(* connected socket, which may hold a response of an earlier exchange as   *)
(* the first probe starts.  The server answers every request with an       *)
(* XOR-MAPPED-ADDRESS.                                                     *)
(***************************************************************************)
QueueResponses ==
    {[attrs |-> <<(<<"xor", a>>)>>, flip |-> 0, delta |-> 0, hdr |-> "success"] :
        a \in StunAddrs}

QueueInit ==
    /\ proto = "udp"
    /\ check_per_tick = 1
    /\ pc = "probe"
    /\ local_port = AnyPort
    /\ RunInit
    /\ DnsIdle
    /\ st_pc = "request"
    /\ st_tx = <<>>
    /\ st_resp \in QueueResponses
    /\ st_hdr = <<>>
    /\ st_out = "none"
    /\ st_io = "none"
    /\ st_n = 1
    /\ st_prev = 0
    /\ st_queue \in {<<>>}
            \cup {<<Datagram(0, r, tx)>> : r \in QueueResponses, tx \in TxIds}
    /\ SocketIdle
    /\ SupIdle
    /\ TickIdle

\* keepalive calls udp_socket_addr(socket_st) again, after a probe that
\* succeeded or whose failure was tolerated
StunAgain ==
    /\ st_pc = "done"
    /\ st_n < MaxProbes
    /\ st_n' = st_n + 1
    /\ st_pc' = "request"
    /\ st_resp' \in QueueResponses
    /\ st_out' = "none"
    /\ st_io' = "none"
    /\ UNCHANGED <<beside_stun, st_tx, st_hdr, st_prev, st_queue>>

QueueNext ==
    \/ StunRequest
    \/ StunUdpRecv
    \/ StunAgain

SpecQueue == QueueInit /\ [][QueueNext]_vars

(***************************************************************************)
(* Configuration and LocalAddr::socket: specification SpecSocket.  A       *)
(* LocalAddr is built from the run arguments (Config::try_from) or from    *)
(* one task of a batch file (MultiConfig::load, TaskConfig::into_mapper),  *)
(* then LocalAddr::socket is called on it once.  Each system call of       *)
(* socket is a step whose outcome is an input.                             *)
(***************************************************************************)
\* config::check_iface: ensure!(name.len() <= IFNAMSIZ)
check_iface(name) == name <= IFNAMSIZ

\* the assert! of LocalAddr::with_iface holds for this name
with_iface_fits(iface) == iface <= IFNAMSIZ

\* Option::or_else on interface names
OrElse(a, b) == IF a # NoIface THEN a ELSE b

\* the interface name the configuration asks for
EffectiveIface == IF cf_path = "batch" THEN OrElse(cf_iface, cf_default_iface)
                  ELSE cf_iface

\* what configuration or LocalAddr::socket returns
SockNone == <<"none">>
SockOk == <<"Ok">>
SockPanic == <<"Panic">>
SockErr(op, kind) == <<"Err", op, kind>>

\* faulty variant of ReclaimAfter: any failed bind is reclaimed under the flag
ReclaimAfterAnyFailure(reuse_port, kind) == reuse_port

\* the test of the first bind's error in LocalAddr::socket
ReclaimAfter(reuse_port, kind) == reuse_port /\ kind = "AddrInUse"

(***************************************************************************)
(* Port reclamation, net/reuse_port.rs.  What the procedure meets is its   *)
(* input: for a socket table either that the file is missing, that reading *)
(* it fails, or the matching sockets it lists, each with what happens when *)
(* its owner is looked up and its option is set.                           *)
(***************************************************************************)
\* PROC_SOURCES: /proc/net/tcp, tcp6, udp, udp6
PROC_SOURCES == 1..4

\* what happens to one matching socket: the scan of /proc cannot read a
\* directory or a link it needs (scan_failed), no process is found to hold
\* the inode (no_owner), one of the three system calls fails, or the option
\* is set
SocketFates ==
    {"scan_failed", "no_owner", "pidfd_open", "pidfd_getfd", "setsockopt", "set"}

\* what one socket table gives: a missing file, a failed read, or its
\* matching sockets
TableStates ==
    {<<"NotFound">>, <<"ReadErr">>}
        \cup UNION {[1..n -> SocketFates] : n \in 0..MaxMatching}

\* what the procedure meets: one of the four tables is in any state, the
\* other three are read and list no socket of the port
ReclaimEnvs ==
    {[t \in PROC_SOURCES |-> IF t = k THEN table ELSE <<>>] :
        k \in PROC_SOURCES, table \in TableStates}

\* find_inodes: NotFound is taken for an empty table, another error is returned
find_inodes(table) ==
    CASE table = <<"NotFound">> -> Ok(<<>>)
      [] table = <<"ReadErr">> -> Err("io")
      [] OTHER -> Ok(table)

\* find_pid_fd: every error of read_dir and read_link is skipped, so the scan
\* returns Ok(None) when it fails as when no process holds the inode
find_pid_fd(fate) ==
    IF fate \in {"scan_failed", "no_owner"} THEN Ok("None") ELSE Ok("Some")

\* set_reuse_port: pidfd_open, pidfd_getfd, setsockopt, each tested
set_reuse_port(fate) ==
    IF fate \in {"pidfd_open", "pidfd_getfd", "setsockopt"}
    THEN Err("io")
    ELSE Ok("unit")

\* the inner loop of force_reuse_port from the i-th inode of a table on
RECURSIVE reuse_inodes(_, _)
reuse_inodes(inodes, i) ==
    IF i > Len(inodes)
    THEN "Ok"
    ELSE IF find_pid_fd(inodes[i]) = Ok("Some")
         THEN IF set_reuse_port(inodes[i]) = Ok("unit")
              THEN reuse_inodes(inodes, i + 1)
              ELSE "Err"
         ELSE reuse_inodes(inodes, i + 1)

\* the outer loop of force_reuse_port from table t on
RECURSIVE reuse_tables(_, _)
reuse_tables(env, t) ==
    IF t \notin PROC_SOURCES
    THEN "Ok"
    ELSE LET found == find_inodes(env[t])
         IN  IF found[1] = "Err"
             THEN "Err"
             ELSE IF reuse_inodes(found[2], 1) = "Ok"
                  THEN reuse_tables(env, t + 1)
                  ELSE "Err"

force_reuse_port(env) == reuse_tables(env, 1)

SocketInit ==
    /\ proto \in Protocols
    /\ check_per_tick = 1
    /\ pc = "socket"
    /\ local_port \in LocalPorts
    /\ RunInit
    /\ DnsIdle
    /\ StunIdle
    /\ SupIdle
    /\ TickIdle
    /\ cf_path \in ConfigPaths
    /\ cf_iface \in IfaceNames
    /\ cf_default_iface \in (IF cf_path = "batch" THEN IfaceNames ELSE {NoIface})
    /\ sk_feature \in BOOLEAN
    \* LocalAddr::force_reuse_port exists only in a build with the feature
    /\ cf_force \in (IF sk_feature THEN BOOLEAN ELSE {FALSE})
    /\ sk_pc = "config"
    /\ sk_iface = NoIface
    /\ sk_reuse_port = FALSE
    /\ sk_binds = 0
    /\ sk_reclaims = 0
    /\ sk_err1 = "none"
    /\ sk_env = <<>>
    /\ sk_out = SockNone

\* configuration or socket returns r (or panics)
SockReturn(r) ==
    /\ sk_pc' = "done"
    /\ sk_out' = r

\* the LocalAddr is built: LocalAddr::new, with_iface, force_reuse_port
SockBuilt(iface) ==
    /\ sk_pc' = "built"
    /\ sk_iface' = iface
    /\ sk_reuse_port' = cf_force
    /\ UNCHANGED sk_out

\* Config::try_from, the Run arm: parse_bind, then the LocalAddr
ConfigCli ==
    /\ sk_pc = "config"
    /\ cf_path = "cli"
    /\ \E bind_ok \in BOOLEAN :
        IF ~bind_ok
        THEN SockReturn(SockErr("config", "bind")) /\ UNCHANGED <<sk_iface, sk_reuse_port>>
        ELSE IF cf_iface # NoIface /\ ~with_iface_fits(cf_iface)
        THEN SockReturn(SockPanic) /\ UNCHANGED <<sk_iface, sk_reuse_port>>
        ELSE SockBuilt(cf_iface)
    /\ UNCHANGED <<cf_path, cf_iface, cf_default_iface, cf_force, sk_feature, sk_env,
                   sk_binds, sk_reclaims, sk_err1, beside_sock>>

\* MultiConfig::load for one task, then TaskConfig::into_mapper.  file_ok:
\* the file is read and parsed, holds a task, and the stun and remote pairs
\* of [default] are whole, all of which load and Defaults::into_parsed test
\* before the interface name of [default]; task_ok: the stun server, bind
\* and mode of the task, which TaskEntry::into_config tests before the
\* interface name of the task
ConfigBatch ==
    /\ sk_pc = "config"
    /\ cf_path = "batch"
    /\ \E file_ok, task_ok \in BOOLEAN :
        IF ~file_ok
        THEN SockReturn(SockErr("config", "file")) /\ UNCHANGED <<sk_iface, sk_reuse_port>>
        ELSE IF cf_default_iface # NoIface /\ ~check_iface(cf_default_iface)
        THEN SockReturn(SockErr("config", "iface")) /\ UNCHANGED <<sk_iface, sk_reuse_port>>
        ELSE IF ~task_ok
        THEN SockReturn(SockErr("config", "task")) /\ UNCHANGED <<sk_iface, sk_reuse_port>>
        ELSE IF cf_iface # NoIface /\ ~check_iface(cf_iface)
        THEN SockReturn(SockErr("config", "iface")) /\ UNCHANGED <<sk_iface, sk_reuse_port>>
        ELSE IF EffectiveIface # NoIface /\ ~with_iface_fits(EffectiveIface)
        THEN SockReturn(SockPanic) /\ UNCHANGED <<sk_iface, sk_reuse_port>>
        ELSE SockBuilt(EffectiveIface)
    /\ UNCHANGED <<cf_path, cf_iface, cf_default_iface, cf_force, sk_feature, sk_env,
                   sk_binds, sk_reclaims, sk_err1, beside_sock>>

\* LocalAddr::socket up to the bind: Socket::new, the socket options,
\* set_mark, bind_device
SocketOpen ==
    /\ sk_pc = "built"
    /\ \E ok \in BOOLEAN :
        IF ok
        THEN sk_pc' = "bind" /\ UNCHANGED sk_out
        ELSE SockReturn(SockErr("open", "Other"))
    /\ UNCHANGED <<cf_path, cf_iface, cf_default_iface, cf_force, sk_feature, sk_env,
                   sk_iface, sk_reuse_port, sk_binds, sk_reclaims, sk_err1,
                   beside_sock>>

\* the first socket.bind(socket_addr) and the match on its error
SocketBind ==
    /\ sk_pc = "bind"
    /\ sk_binds' = sk_binds + 1
    /\ \E r \in {"ok"} \cup BindErrors :
        IF r = "ok"
        THEN SockReturn(SockOk) /\ UNCHANGED sk_err1
        ELSE /\ sk_err1' = r
             /\ IF sk_feature /\ ReclaimAfter(sk_reuse_port, r)
                THEN sk_pc' = "reclaim" /\ UNCHANGED sk_out
                ELSE SockReturn(SockErr("bind", r))
    /\ UNCHANGED <<cf_path, cf_iface, cf_default_iface, cf_force, sk_feature, sk_env,
                   sk_iface, sk_reuse_port, sk_reclaims, beside_sock>>

\* reuse_port::force_reuse_port(self.local_addr.port())?
SocketReclaim ==
    /\ sk_pc = "reclaim"
    /\ sk_reclaims' = sk_reclaims + 1
    /\ \E env \in ReclaimEnvs :
        /\ sk_env' = env
        /\ IF force_reuse_port(env) = "Ok"
           THEN sk_pc' = "rebind" /\ UNCHANGED sk_out
           ELSE SockReturn(SockErr("reclaim", "Other"))
    /\ UNCHANGED <<cf_path, cf_iface, cf_default_iface, cf_force, sk_feature,
                   sk_iface, sk_reuse_port, sk_binds, sk_err1, beside_sock>>

\* the second socket.bind(socket_addr)?
SocketRebind ==
    /\ sk_pc = "rebind"
    /\ sk_binds' = sk_binds + 1
    /\ \E r \in {"ok"} \cup BindErrors :
        IF r = "ok"
        THEN SockReturn(SockOk)
        ELSE SockReturn(SockErr("rebind", r))
    /\ UNCHANGED <<cf_path, cf_iface, cf_default_iface, cf_force, sk_feature, sk_env,
                   sk_iface, sk_reuse_port, sk_reclaims, sk_err1, beside_sock>>

SocketNext ==
    \/ ConfigCli
    \/ ConfigBatch
    \/ SocketOpen
    \/ SocketBind
    \/ SocketReclaim
    \/ SocketRebind

SpecSocket == SocketInit /\ [][SocketNext]_vars

(***************************************************************************)
(* The supervisors: specification SpecSup.  proc (single.rs) runs one      *)
(* mapper; handle::run (multi/handle.rs) spawns run_task for every task    *)
(* into a JoinSet and joins them.  mapper.run(..).await is one step.       *)
(***************************************************************************)
\* the match on mapper.run(..).await in proc and run_task
SupAfterRun(e) == IF IsRecoverable(e) THEN "sleeping" ELSE "ended"

\* the tasks a supervisor runs
SupTasks == IF sup_mode = "single" THEN {1} ELSE Tasks

SupInit ==
    /\ proto \in Protocols
    /\ check_per_tick = 1
    /\ pc = "supervised"
    /\ local_port = AnyPort
    /\ RunInit
    /\ DnsIdle
    /\ StunIdle
    /\ SocketIdle
    /\ sup_mode \in SupModes
    /\ sup_pc = "running"
    /\ sup_out = "none"
    /\ t_pc = [t \in Tasks |-> IF t \in SupTasks THEN "running" ELSE "absent"]
    /\ t_err = [t \in Tasks |-> "none"]
    /\ t_slept = [t \in Tasks |-> 0]
    /\ t_joined = {}
    /\ TickIdle

\* mapper.run(..).await of task t ends.  It returns Err(e): the match arms up
\* to the sleep, the break (run_task) or the return (proc).  Or it panics
\* (tokio::time::interval with a keepalive of 0 does): the spawned future of
\* run_task ends with the panic, which join_next will return as an Err; in
\* proc the panic unwinds through block_on.
SupRunReturns ==
    /\ sup_pc = "running"
    /\ \E t \in SupTasks, e \in Errors \cup {"panic"} :
        /\ t_pc[t] = "running"
        /\ t_pc' = [t_pc EXCEPT ![t] = IF e = "panic" THEN "panicked"
                                       ELSE SupAfterRun(e)]
        /\ t_err' = (IF e = "panic" THEN t_err ELSE [t_err EXCEPT ![t] = e])
        /\ IF sup_mode = "single" /\ e = "panic"
           THEN sup_pc' = "panicked" /\ sup_out' = "Panic"
           ELSE IF sup_mode = "single" /\ SupAfterRun(e) = "ended"
           THEN sup_pc' = "returned" /\ sup_out' = e
           ELSE UNCHANGED <<sup_pc, sup_out>>
    /\ UNCHANGED <<sup_mode, t_slept, t_joined, beside_sup>>

\* tokio::time::sleep(Duration::from_secs(5)).await of task t ends and the
\* loop calls run again
SupWake ==
    /\ sup_pc = "running"
    /\ \E t \in SupTasks :
        /\ t_pc[t] = "sleeping"
        /\ t_pc' = [t_pc EXCEPT ![t] = "running"]
        /\ t_slept' = [t_slept EXCEPT ![t] = SUP_SLEEP_SECS]
    /\ UNCHANGED <<sup_mode, sup_pc, sup_out, t_err, t_joined, beside_sup>>

\* set.join_next().await returns a task that has ended: Ok(()) of one that
\* left its loop, Err(JoinError) of one that panicked, which is printed
SupJoin ==
    /\ sup_mode = "batch"
    /\ sup_pc = "running"
    /\ \E t \in SupTasks \ t_joined :
        /\ t_pc[t] \in {"ended", "panicked"}
        /\ t_joined' = t_joined \cup {t}
    /\ UNCHANGED <<sup_mode, sup_pc, sup_out, t_pc, t_err, t_slept, beside_sup>>

\* set.join_next().await returns None: handle::run returns Ok(())
SupReturn ==
    /\ sup_mode = "batch"
    /\ sup_pc = "running"
    /\ t_joined = SupTasks
    /\ sup_pc' = "returned"
    /\ sup_out' = "Ok"
    /\ UNCHANGED <<sup_mode, t_pc, t_err, t_slept, t_joined, beside_sup>>

SupNext ==
    \/ SupRunReturns
    \/ SupWake
    \/ SupJoin
    \/ SupReturn

SpecSup == SupInit /\ [][SupNext]_vars

(***************************************************************************)
(* The timers of the two keepalive loops.  The clock counts whole units;   *)
(* the loop is entered at time 0.  TCP: keepalive of tcp.rs waits on a     *)
(* tokio::time::interval inside select!, whose first tick is due at once   *)
(* and whose every later deadline is the deadline before it plus the       *)
(* period (MissedTickBehavior::Burst, the default).  UDP: keepalive of     *)
(* udp.rs awaits a new tokio::time::sleep(self.interval) at the head of    *)
(* every pass of its loop.                                                 *)
(***************************************************************************)
\* the configured interval (tick_interval, interval) in units of the clock
TickInterval == 2

\* how long the work of a tick takes: a write_all, a send_to, or a STUN probe
WorkTimes == 0..MaxWork

TickInit ==
    /\ proto \in Protocols
    /\ check_per_tick = 1
    /\ pc = "timed"
    /\ local_port = AnyPort
    /\ RunInit
    /\ DnsIdle
    /\ StunIdle
    /\ SocketIdle
    /\ SupIdle
    /\ tk_mode = proto
    /\ tk_pc = "waiting"
    /\ tk_now = 0
    /\ tk_due = (IF proto = "tcp" THEN 0 ELSE TickInterval)
    /\ tk_sched = 0
    /\ tk_n = 0

\* the timer the loop waits for fires: `interval.tick()` is the branch select!
\* takes, or `sleep(self.interval).await` ends.  An Interval arms its next
\* deadline as it fires; a Sleep is gone once it has ended.
TkTick ==
    /\ tk_pc = "waiting"
    /\ tk_n < MaxTicks
    /\ tk_now' = (IF tk_now > tk_due THEN tk_now ELSE tk_due)
    /\ tk_sched' = tk_due
    /\ tk_n' = tk_n + 1
    /\ tk_pc' = "working"
    /\ tk_due' = (IF tk_mode = "tcp" THEN tk_due + TickInterval ELSE tk_due)
    /\ UNCHANGED <<tk_mode, beside_tick>>

\* the work of the tick ends and the loop comes back to its head: TCP enters
\* select! again with the same Interval, UDP calls sleep(self.interval) now
TkWork ==
    /\ tk_pc = "working"
    /\ \E w \in WorkTimes :
        /\ tk_now' = tk_now + w
        /\ tk_due' = (IF tk_mode = "tcp" THEN tk_due ELSE tk_now + w + TickInterval)
    /\ tk_pc' = "waiting"
    /\ UNCHANGED <<tk_mode, tk_sched, tk_n, beside_tick>>

\* TCP: `res = stream.read(&mut buf)` is the branch select! takes before the
\* tick is due, and `Ok(_) => {}` goes round the loop; the Interval is the same
TkRead ==
    /\ tk_mode = "tcp"
    /\ tk_pc = "waiting"
    /\ \E t \in (tk_now + 1)..tk_due : tk_now' = t
    /\ UNCHANGED <<tk_mode, tk_pc, tk_due, tk_sched, tk_n, beside_tick>>

TickNext ==
    \/ TkTick
    \/ TkWork
    \/ TkRead

SpecTick == TickInit /\ [][TickNext]_vars

(***************************************************************************)
(* Properties of the change-notification contract.                         *)
(***************************************************************************)
\* s with every run of equal consecutive elements reduced to one element
RECURSIVE Dedup(_)
Dedup(s) ==
    IF Len(s) <= 1
    THEN s
    ELSE LET d == Dedup(SubSeq(s, 1, Len(s) - 1))
         IN  IF s[Len(s)] = d[Len(d)] THEN d ELSE Append(d, s[Len(s)])

\* C1: within one run the handler is never called with an address equal to
\* last_public: current_ip is always the address of the previous handler call
\* (absent before the first), and any two consecutive handler calls carry
\* different addresses, in TCP and in UDP mode, across failures and reconnects.
C1_HandlerNeverRepeats ==
    /\ \A i \in 1..(Len(calls) - 1) : calls[i] # calls[i + 1]
    /\ calls = <<>> => current_ip = NoAddr
    /\ calls # <<>> => current_ip = calls[Len(calls)]

\* a probe repeated the address last reported and was not reported again,
\* after an earlier change had been reported
C1_Witness ==
    /\ Len(calls) = 2
    /\ Len(probes) = 3
    /\ probes[3] = probes[2]

\* C2: every successful probe whose address differs from last_public is
\* reported exactly once, before the next probe is awaited: at every await of
\* run the handler's calls are the successful probe results with consecutive
\* duplicates removed, in the same order.
C2_CallsAreDedupedProbes == calls = Dedup(probes)

\* the address flips A, B, A and the handler sees A, B, A (UDP, periodic probes)
C2_Witness ==
    /\ proto = "udp"
    /\ pc = "udp_tick"
    /\ retry_cnt = 0
    /\ Len(probes) = 3
    /\ probes[1] # probes[2]
    /\ probes[3] = probes[1]
    /\ calls = probes

\* C3: last_public is absent until the first successful discovery, and that
\* discovery always calls the handler with the address it reports, however
\* many failed attempts came before it.
C3_FirstDiscoveryNotifies ==
    /\ probes = <<>> => (current_ip = NoAddr /\ calls = <<>>)
    /\ probes # <<>> => (calls # <<>> /\ calls[1] = probes[1])

\* the first discovery of the run came after failed attempts and was reported
C3_Witness ==
    /\ recovered
    /\ Len(probes) = 1
    /\ calls = probes

(***************************************************************************)
(* Properties of the error handling of run.                                *)
(***************************************************************************)
\* the await a socket construction failure is seen at
SocketSteps == {"tcp_sockets", "udp_sockets"}

\* C4: a socket construction failure ends run at once with the Socket error:
\* no BACKOFF sleep, retry_count neither incremented nor consulted, no handler
\* call in that step or after it; when no discovery had succeeded before (as
\* in the first setup) run has returned with zero handler calls.
C4_SocketErrorIsFatal ==
    /\ [][ (/\ pc \in SocketSteps
            /\ pc' \notin {pc, "tcp_resolve", "udp_resolve", "cancelled"})
           => (/\ pc' = "returned"
               /\ result' = "Socket"
               /\ retry_cnt' = retry_cnt
               /\ calls' = calls) ]_vars
    /\ [][ pc = "returned" => UNCHANGED vars ]_vars
    /\ [](result = "Socket" /\ probes = <<>> => calls = <<>>)

\* a socket failure in a later setup, with failures counted and a handler call made
C4_Witness ==
    /\ pc = "returned"
    /\ result = "Socket"
    /\ retry_cnt > 0
    /\ retry_cnt < RETRY_LTD
    /\ calls # <<>>

\* the errors the step of TcpMapperReactor::new awaited at p can fail with
TcpStepErrors(p) ==
    CASE p = "tcp_sockets" -> {"Socket"}
      [] p = "tcp_resolve" -> DnsErrors
      [] p \in {"tcp_connect_ka", "tcp_connect_st"} -> {"Connection"}
      [] p = "tcp_stun" -> StunErrors
      [] OTHER -> {}

\* C5: in TCP mode a recoverable setup failure adds exactly one to retry_count;
\* below RETRY_LTD it is followed by the BACKOFF sleep and a new setup, and the
\* failure that makes retry_count reach RETRY_LTD makes run return that
\* failure's error; run keeps going while fewer than RETRY_LTD setups in a row
\* have failed.
C5_TcpRetryLimit ==
    /\ [][ (proto = "tcp" /\ fails' = fails + 1)
           => (/\ retry_cnt' = retry_cnt + 1
               /\ retry_cnt' < RETRY_LTD
                    => (pc' = "tcp_backoff" /\ result' = NoResult)
               /\ retry_cnt' >= RETRY_LTD
                    => (/\ pc' = "returned"
                        /\ result' \in TcpStepErrors(pc)
                        /\ IsRecoverable(result'))) ]_vars
    /\ [][ (proto = "tcp" /\ pc = "tcp_backoff")
           => pc' \in {"tcp_sockets", "cancelled"} ]_vars
    /\ [](proto = "tcp" /\ fails < RETRY_LTD => result \in {NoResult, "Socket"})

\* five DNS failures in a row: run has returned the Dns error
C5_Witness ==
    /\ proto = "tcp"
    /\ pc = "returned"
    /\ result \in DnsErrors
    /\ retry_cnt = RETRY_LTD
    /\ fails = RETRY_LTD

\* C6: run never returns Ok(()): when run has returned, it returned an error,
\* either the fatal Socket error or a recoverable error after retry_count
\* reached RETRY_LTD.
C6_RunEndsOnlyFatalOrExhausted ==
    pc = "returned" =>
        /\ result \in Errors
        /\ (result = "Socket" \/ retry_cnt >= RETRY_LTD)

\* C7: in TCP mode a successful setup resets retry_count to 0 before the
\* keepalive loop, so retry_count is the number of setups that failed since
\* the last successful one, and run returns a recoverable error only when
\* RETRY_LTD setups failed with no successful setup between them.
C7_TcpSetupResetsRetry ==
    proto = "tcp" =>
        /\ pc = "tcp_keepalive" => retry_cnt = 0
        /\ retry_cnt = fails
        /\ (pc = "returned" /\ IsRecoverable(result)) => fails = RETRY_LTD

\* failures, then a successful setup, then RETRY_LTD failures in a row
C7_Witness ==
    /\ proto = "tcp"
    /\ recovered
    /\ pc = "returned"
    /\ IsRecoverable(result)

\* the awaits inside the steady-state loop of UdpMapper::keepalive
UdpSteady == {"udp_tick", "udp_probe", "udp_send"}

\* C8: in UDP mode a successful setup resets retry_count to 0, so that
\* escalations separated by a successful setup do not add up: in the
\* steady-state loop retry_count is 0, and run returns a keepalive-loop error
\* only when RETRY_LTD outer iterations in a row failed.
C8_UdpSetupResetsRetry ==
    proto = "udp" =>
        /\ pc \in UdpSteady => retry_cnt = 0
        /\ (pc = "returned" /\ result \in StunErrors \cup {"Keepalive"})
             => fails >= RETRY_LTD

\* C9: in UDP mode a DNS or datagram-connect failure of the outer setup is
\* retried: run returns such an error only when retry_count reached RETRY_LTD.
C9_UdpSetupFailureIsRetried ==
    (proto = "udp" /\ pc = "returned" /\ result \in DnsErrors \cup {"Connection"})
        => retry_cnt >= RETRY_LTD

\* C10: in TCP mode an I/O error that ends the keepalive loop is counted as a
\* recoverable failure: retry_count has been incremented when the BACKOFF
\* sleep that follows it is taken.
C10_TcpKeepaliveErrorIsCounted ==
    (proto = "tcp" /\ pc = "tcp_backoff" /\ ka_res = "Err") => retry_cnt >= 1

\* C11: in TCP mode a zero-byte read (server FIN) makes keepalive return Ok:
\* the step leaves retry_cnt at 0, returns nothing from run and keeps
\* current_ip; the controller then always goes on to another outer setup;
\* current_ip survives the reconnect, so a setup that reports the address
\* already recorded does not call the handler.
C11_TcpFinReconnects ==
    /\ [][ (proto = "tcp" /\ pc = "tcp_keepalive" /\ ka_res' = "Ok")
           => (/\ pc' = "tcp_backoff"
               /\ retry_cnt = 0 /\ retry_cnt' = 0
               /\ result' = NoResult
               /\ fails' = fails
               /\ current_ip' = current_ip /\ calls' = calls) ]_vars
    /\ [][ (proto = "tcp" /\ pc = "tcp_backoff" /\ pc' # "cancelled")
           => (pc' = "tcp_sockets" /\ current_ip' = current_ip) ]_vars
    /\ [][ (proto = "tcp" /\ probes' = probes) => current_ip' = current_ip ]_vars
    /\ [][ (proto = "tcp" /\ probes' # probes /\ probes # <<>>
            /\ probes'[Len(probes')] = probes[Len(probes)])
           => calls' = calls ]_vars

\* a second setup, reached after a FIN with no failure in between, reported
\* the address of the first one, and the handler was called once only
C11_Witness ==
    /\ proto = "tcp"
    /\ pc = "tcp_keepalive"
    /\ last_ka = "Ok"
    /\ ~recovered
    /\ Len(probes) = 2
    /\ probes[1] = probes[2]
    /\ Len(calls) = 1

\* C12: in the UDP steady-state loop, counting ticks from the initial probe,
\* tick k is a STUN probe iff k is a multiple of check_per_tick and a keepalive
\* send otherwise, so of the first k ticks exactly k \div check_per_tick are
\* probes; with check_per_tick = 1 no keepalive datagram is ever sent.
C12_UdpTickSchedule ==
    proto = "udp" =>
        /\ tick_probes = ticks \div check_per_tick
        /\ (pc = "udp_probe" /\ ticks < MaxTicks) =>
                (ticks > 0 /\ ticks % check_per_tick = 0)
        /\ (pc = "udp_send" /\ ticks < MaxTicks) => ticks % check_per_tick # 0
        /\ check_per_tick = 1 => pc # "udp_send"

\* the fifth tick with check_per_tick = 3 is a send, after one probe at tick 3,
\* and an operation before it failed
C12_Witness ==
    /\ proto = "udp"
    /\ check_per_tick = 3
    /\ pc = "udp_send"
    /\ ticks = 5
    /\ tick_probes = 1
    /\ consecutive_failures = 2

\* C13: the UDP steady-state loop is left exactly by the operation that makes
\* RETRY_LTD failed operations in a row (probes and sends counted together,
\* any success starting the count again); keepalive then returns the STUN
\* error if that operation was a probe and Keepalive if it was a send; run
\* counts the error and restarts outer setup while retry_cnt < RETRY_LTD.
C13_UdpLoopEscalation ==
    /\ [][ (proto = "udp" /\ pc \in {"udp_probe", "udp_send"} /\ pc' # "cancelled")
           => (/\ pc' \in {"udp_tick", "udp_backoff", "returned"}
               /\ pc' # "udp_tick" <=> op_fails' = RETRY_LTD
               /\ pc' = "udp_tick" => (ka_res' = "none" /\ retry_cnt' = retry_cnt)
               /\ pc' # "udp_tick" =>
                    /\ pc = "udp_probe" => ka_res' \in StunErrors
                    /\ pc = "udp_send" => ka_res' = "Keepalive"
                    /\ retry_cnt' = retry_cnt + 1
                    /\ retry_cnt' < RETRY_LTD =>
                            (pc' = "udp_backoff" /\ result' = NoResult)
                    /\ retry_cnt' >= RETRY_LTD =>
                            (pc' = "returned" /\ result' = ka_res')) ]_vars
    /\ [][ (proto = "udp" /\ pc = "udp_backoff" /\ pc' # "cancelled")
           => pc' = "udp_resolve" ]_vars
    /\ [](proto = "udp" /\ pc \in {"udp_tick", "udp_probe", "udp_send"}
           => op_fails < RETRY_LTD)

\* with check_per_tick = 3 a run of failed probes and sends ended the loop at a
\* send, after earlier failures had been tolerated and a success had reset the
\* count, and setup is about to be restarted
C13_Witness ==
    /\ proto = "udp"
    /\ check_per_tick = 3
    /\ pc = "udp_backoff"
    /\ ka_res = "Keepalive"
    /\ op_fails = RETRY_LTD
    /\ retry_cnt = 1
    /\ Len(probes) = 2

\* C14: in UDP mode RETRY_LTD failed STUN probes in a row (no successful probe
\* between them) take the controller out of the steady-state loop, whatever
\* check_per_tick is and whether or not the sends between them succeed: the
\* controller is never in the loop with that many failed probes behind it.
C14_FailedProbesEscalate ==
    (proto = "udp" /\ pc \in {"udp_tick", "udp_probe", "udp_send"})
        => probe_fails < RETRY_LTD

\* C15: in UDP mode the STUN socket and the keepalive socket are bound to the
\* same local port for every configured local address, port 0 included.
C15_UdpSocketsShareAddress ==
    (proto = "udp" /\ st_sock # NoSocket /\ ka_sock # NoSocket) => st_sock = ka_sock

\* C16: in every TCP outer setup the STUN socket is bound to the concrete local
\* address read from the keepalive socket after its bind, so while both are
\* open they share one port, also for a configured port 0, and the local
\* address given to the handler in MappingInfo is that concrete address.
C16_TcpSocketsShareAddress ==
    /\ [](proto = "tcp" =>
            /\ ka_sock # NoSocket =>
                    (ka_sock # AnyPort /\ ka_sock \in BoundPorts(local_port))
            /\ st_sock # NoSocket => st_sock = ka_sock)
    /\ [][ (proto = "tcp" /\ calls' # calls)
           => (info_local' = ka_sock /\ info_local' = ka_sock'
               /\ ka_sock # NoSocket /\ st_sock = ka_sock) ]_vars

\* configured port 0: a later setup has both sockets open on one assigned port,
\* another port than the one an earlier MappingInfo carried
C16_Witness ==
    /\ proto = "tcp"
    /\ local_port = AnyPort
    /\ pc = "tcp_stun"
    /\ ka_sock \in EphemeralPorts
    /\ st_sock = ka_sock
    /\ info_local \in EphemeralPorts
    /\ info_local # ka_sock

\* the awaits of UdpMapper::run after the two sockets are built
UdpRunning == {"udp_resolve", "udp_connect", "udp_probe0", "udp_tick", "udp_probe",
               "udp_send", "udp_backoff"}

\* C17: the controller never owns more than two open sockets; in TCP mode the
\* sockets of an outer iteration are all closed before the next iteration
\* builds its own, after a failed setup too; in UDP mode exactly two sockets
\* are open for as long as run is past building them.
C17_AtMostTwoSockets ==
    /\ n_open <= 2
    /\ n_open = Cardinality({s \in {"ka", "st"} :
                    (IF s = "ka" THEN ka_sock ELSE st_sock) # NoSocket})
    /\ (proto = "tcp" /\ pc \in {"tcp_backoff", "tcp_sockets"}) => n_open = 0
    /\ (proto = "tcp" /\ pc = "tcp_keepalive") => n_open = 1
    /\ (proto = "udp" /\ pc \in UdpRunning) => n_open = 2
    /\ pc \in {"returned", "cancelled"} => n_open = 0

\* TCP: the next iteration is about to build its sockets after a failed setup
\* that followed a successful one, and nothing is open
C17_Witness ==
    /\ proto = "tcp"
    /\ pc = "tcp_sockets"
    /\ fails = 1
    /\ probes # <<>>
    /\ last_ka = "Ok"
    /\ n_open = 0

(***************************************************************************)
(* Properties of the STUN client.                                          *)
(***************************************************************************)
\* attrs has an attribute of the given kind
HasKind(attrs, kind) == \E i \in 1..Len(attrs) : attrs[i][1] = kind

\* the address in the first attribute of the given kind in attrs
FirstAddr(attrs, kind) ==
    attrs[CHOOSE i \in 1..Len(attrs) :
            /\ attrs[i][1] = kind
            /\ \A j \in 1..(i - 1) : attrs[j][1] # kind][2]

\* the length field of the header of the response being sent
DeclaredLen == HeaderLen(Len(BodyBytes(st_resp.attrs, st_tx)), st_resp.delta)

\* the discover call has returned something other than an I/O error
StunAnswered == st_pc = "done" /\ st_out # Err("StunNetwork")

\* C18: a response (matching transaction id, whole body within the limit)
\* that has a XOR-MAPPED-ADDRESS attribute yields the address of that
\* attribute wherever it stands in the body, also after a MAPPED-ADDRESS;
\* MAPPED-ADDRESS is used only when there is no XOR-MAPPED-ADDRESS.
C18_XorMappedPreferred ==
    (StunAnswered /\ st_resp.flip = 0 /\ st_resp.delta = 0
        /\ DeclaredLen <= MAX_BODY_SIZE)
    => /\ HasKind(st_resp.attrs, "xor")
            => st_out = Ok(FirstAddr(st_resp.attrs, "xor"))
       /\ (~HasKind(st_resp.attrs, "xor") /\ HasKind(st_resp.attrs, "mapped"))
            => st_out = Ok(FirstAddr(st_resp.attrs, "mapped"))

\* C19: for both transports a response whose header arrived and whose
\* transaction id differs from the request's in some byte makes the discover
\* call return TransactionIdMismatch, whatever length it declares and
\* whatever its body is.
C19_TxMismatchFirst ==
    (StunAnswered /\ st_resp.flip # 0) => st_out = Err("StunTransactionIdMismatch")

\* C20: for both transports a response with the request's transaction id is
\* rejected with ResponseTooLarge if it declares a body of 2049 bytes or
\* more, and is parsed if it declares at most 2048.
C20_BodyLimit ==
    (StunAnswered /\ st_resp.flip = 0)
    => (st_out = Err("StunResponseTooLarge") <=> DeclaredLen >= MAX_BODY_SIZE + 1)

\* the attributes before the i-th are all unknown to the client
OnlyPadsBefore(attrs, i) == \A j \in 1..(i - 1) : attrs[j][1] = "pad"

\* where the i-th attribute starts in the body, and the length of its value
AttrStart(attrs, i) == Len(BodyBytes(SubSeq(attrs, 1, i - 1), st_tx))
ValueLen(attrs, i) == IF attrs[i][1] = "pad" THEN attrs[i][2]
                      ELSE Len(AttrBytes(attrs[i], st_tx)) - 4

\* the header of the i-th attribute lies in the declared body, its value
\* extends beyond it
Overruns(attrs, i) ==
    /\ AttrStart(attrs, i) + 4 <= DeclaredLen
    /\ AttrStart(attrs, i) + 4 + ValueLen(attrs, i) > DeclaredLen

\* C27: in the TLV walk the attribute after one of value length L is read
\* at the offset advanced by 4 + L rounded up to a multiple of 4: an address
\* attribute that follows unknown attributes, also ones whose length is not
\* a multiple of 4, is found and decoded; an attribute whose declared value
\* extends beyond the declared body yields Malformed.
C27_TlvWalk ==
    (StunAnswered /\ st_resp.flip = 0 /\ DeclaredLen <= MAX_BODY_SIZE)
    => \A i \in 1..Len(st_resp.attrs) :
          OnlyPadsBefore(st_resp.attrs, i) =>
            /\ (st_resp.delta = 0 /\ st_resp.attrs[i][1] # "pad") =>
                  st_out = Ok(st_resp.attrs[i][2])
            /\ Overruns(st_resp.attrs, i) => st_out = Err("StunMalformed")

\* the address attribute was found behind an unknown attribute with one byte
\* of value and three bytes of padding
C27_Witness ==
    /\ StunAnswered
    /\ st_resp.flip = 0
    /\ st_resp.delta = 0
    /\ Len(st_resp.attrs) = 2
    /\ st_resp.attrs[1] = <<"pad", 1>>
    /\ st_resp.attrs[2][1] \in {"xor", "mapped"}
    /\ st_out = Ok(st_resp.attrs[2][2])

\* the response sent is a whole message with the request's transaction id
\* whose first attribute is of the given kind
FirstAttrIs(kind) ==
    /\ st_resp.flip = 0
    /\ st_resp.delta = 0
    /\ DeclaredLen <= MAX_BODY_SIZE
    /\ Len(st_resp.attrs) >= 1
    /\ st_resp.attrs[1][1] = kind

\* C28: XOR-MAPPED-ADDRESS decoding inverts the encoding: an attribute that
\* carries (ip, port) as xport = port XOR 0x2112 and xaddress = ip XOR magic
\* cookie (IPv4) or ip XOR (magic cookie followed by the transaction id)
\* (IPv6), parsed with the same transaction id, yields exactly (ip, port).
C28_XorRoundTrip ==
    (StunAnswered /\ FirstAttrIs("xor")) => st_out = Ok(st_resp.attrs[1][2])

\* an IPv6 address came back from its XOR-MAPPED-ADDRESS encoding
C28_Witness ==
    /\ StunAnswered
    /\ FirstAttrIs("xor")
    /\ st_resp.attrs[1][2].family = "V6"
    /\ st_out = Ok(st_resp.attrs[1][2])

\* how far a discover call has got: each await is passed once, in this order
StunRank(p) ==
    CASE p = "request" -> 0
      [] p \in {"tcp_header", "udp_recv"} -> 1
      [] p = "tcp_body" -> 2
      [] p = "done" -> 3

\* C29: one discover call sends exactly one Binding Request and reads at
\* most one response: every step takes the call forward, so the request is
\* written once and each read made at most once; any failure (deadline,
\* I/O error, malformed, mismatched or oversized response) ends the call
\* with that error and nothing is sent again; an expired deadline is
\* reported as Stun.Network.
C29_OneRequestNoRetry ==
    [][/\ StunRank(st_pc') > StunRank(st_pc)
       /\ st_pc # "request" => st_tx' = st_tx
       /\ (st_out' # "none") <=> (st_pc' = "done")
       /\ st_io' # "none" => (st_pc' = "done" /\ st_out' = Err("StunNetwork"))
      ]_vars

\* the deadline expired while the call waited for the datagram, and the call
\* ended with Stun.Network after its one request
C29_Witness ==
    /\ proto = "udp"
    /\ st_pc = "done"
    /\ st_io = "timeout"
    /\ st_tx \in TxIds
    /\ st_out = Err("StunNetwork")

(***************************************************************************)
(* LocalAddr::socket and the configuration in front of it (SpecSocket).    *)
(***************************************************************************)
\* LocalAddr::socket has returned
SocketReturned == sk_pc = "done" /\ sk_binds > 0

\* C21: LocalAddr::socket calls bind at most twice and the port reclamation
\* at most once; reclamation runs only after a first bind that failed with
\* AddrInUse under the force-reuse flag and is followed by exactly one more
\* bind; any other first failure, a failure without the flag, a failure of
\* the reclamation or of the second bind is returned with no further bind.
C21_BindAtMostTwice ==
    /\ sk_binds <= 2
    /\ sk_reclaims <= 1
    /\ sk_reclaims = 1 => sk_err1 = "AddrInUse" /\ sk_reuse_port /\ sk_binds >= 1
    /\ sk_binds = 2 => sk_reclaims = 1
    /\ SocketReturned =>
        /\ (sk_err1 # "none" /\ ~(sk_err1 = "AddrInUse" /\ sk_reuse_port)) =>
              sk_out = SockErr("bind", sk_err1) /\ sk_binds = 1 /\ sk_reclaims = 0
        /\ (sk_reclaims = 1 /\ sk_binds = 1) => sk_out = SockErr("reclaim", "Other")
        /\ (sk_reclaims = 1 /\ sk_out # SockErr("reclaim", "Other")) => sk_binds = 2
        /\ (sk_binds = 2 /\ sk_out # SockOk) =>
              \E k \in BindErrors : sk_out = SockErr("rebind", k)
        /\ sk_err1 = "none" => sk_out = SockOk /\ sk_binds = 1

\* the first bind found the address in use, the port was reclaimed and the
\* second bind succeeded
C21_Witness ==
    /\ sk_pc = "done"
    /\ sk_reclaims = 1
    /\ sk_binds = 2
    /\ sk_out = SockOk

\* C22: an interface name of at most 16 bytes is accepted, one of 17 or more
\* bytes is rejected as an error value on every path from user input to the
\* LocalAddr (run arguments, batch defaults, batch tasks): with_iface's
\* assertion never fails.
C22_IfaceValidated ==
    /\ sk_out # SockPanic
    /\ sk_out = SockErr("config", "iface") =>
          cf_iface > IFNAMSIZ \/ cf_default_iface > IFNAMSIZ
    /\ (sk_pc # "config" /\ (cf_iface > IFNAMSIZ \/ cf_default_iface > IFNAMSIZ)) =>
          sk_out[1] = "Err" /\ sk_out[2] = "config"
    /\ sk_pc \notin {"config", "done"} => sk_iface = EffectiveIface

(***************************************************************************)
(* The supervisors (SpecSup).                                              *)
(***************************************************************************)
\* C23: the supervisor loop around run calls run again after a 5 s sleep
\* whenever run returned a recoverable error and stops the task only when
\* run returned a non-recoverable error; in batch mode the end of one task
\* leaves the other tasks running, and the supervisor returns only after
\* every task has ended.
C23_SupervisorLoop ==
    [][/\ \A t \in SupTasks :
            /\ (t_pc[t] = "running" /\ t_pc'[t] # "running") =>
                  /\ t_pc'[t] = (IF IsRecoverable(t_err'[t]) THEN "sleeping"
                                 ELSE "ended")
                  /\ \A u \in SupTasks \ {t} : t_pc'[u] = t_pc[u]
            /\ (t_pc[t] = "sleeping" /\ t_pc'[t] # "sleeping") =>
                  t_pc'[t] = "running" /\ t_slept'[t] = SUP_SLEEP_SECS
            /\ t_pc[t] = "ended" => t_pc'[t] = "ended"
       /\ (sup_pc = "running" /\ sup_pc' = "returned") =>
            /\ \A t \in SupTasks : t_pc'[t] = "ended" /\ ~IsRecoverable(t_err'[t])
            /\ sup_mode = "single" => sup_out' = t_err'[1]
      ]_vars

(***************************************************************************)
(* The order of the steps of the TCP setup.                                *)
(***************************************************************************)
\* C24: in TCP setup the keepalive connect runs concurrently with the STUN
\* connect and discover (the STUN branch is under way while the keepalive
\* connect is pending, so it can finish first and its failure is returned
\* without waiting for the sibling), and the two DNS resolutions run
\* concurrently.
C24_SetupConcurrent ==
    proto = "tcp" =>
        /\ pc = "tcp_resolve" => TcpAwaiting(pc) = {"resolve_ka", "resolve_st"}
        /\ "connect_ka" \in TcpAwaiting(pc) =>
              TcpAwaiting(pc) \cap {"connect_st", "stun"} # {}

\* C25: in TCP mode the BACKOFF sleep is taken only after a failed step:
\* after a clean exit of the keepalive loop (server FIN) the controller
\* starts the next outer setup with no BACKOFF sleep in between.
C25_NoBackoffAfterFin ==
    (proto = "tcp" /\ pc = "tcp_backoff") => ka_res # "Ok"

(***************************************************************************)
(* The tick counter of the UDP steady-state loop.                          *)
(***************************************************************************)
\* a probe or a send of the steady-state loop ends and the loop goes on
UdpOpEnds(p) == proto = "udp" /\ pc = p /\ pc' = "udp_tick"

\* C26: in the UDP steady-state loop cnt changes only on success: over a
\* tick, a successful keepalive send leaves cnt one higher than the tick
\* found it, a successful probe leaves it 0, and a failed send or a failed
\* probe leaves it as the tick found it.
C26_CntChangesOnSuccess ==
    [][/\ (UdpOpEnds("udp_send") /\ consecutive_failures' = 0) =>
              cnt' = tick_cnt + 1
       /\ (UdpOpEnds("udp_probe") /\ consecutive_failures' = 0) => cnt' = 0
       /\ ((UdpOpEnds("udp_send") \/ UdpOpEnds("udp_probe"))
           /\ consecutive_failures' > consecutive_failures) =>
              cnt' = tick_cnt
      ]_vars

\* a setup has resolved the STUN endpoint: the step from the resolve await to
\* the connect that follows it
ResolveOk ==
    \/ pc = "tcp_resolve" /\ pc' = "tcp_connect_ka"
    \/ pc = "udp_resolve" /\ pc' = "udp_connect"

\* a setup has connected its STUN socket
ConnectOk ==
    \/ pc = "tcp_connect_st" /\ pc' = "tcp_stun"
    \/ pc = "udp_connect" /\ pc' = "udp_probe0"

\* C30: a domain-form STUN endpoint is resolved anew in every outer setup
\* iteration of both modes and nothing is kept from one iteration to the next:
\* an iteration started after a backoff goes through the resolve, the resolve
\* binds the address the DNS returns at that moment, the connects are reached
\* from the resolve only, and the STUN socket is connected to the address this
\* iteration has resolved
C30_ResolvedEverySetup ==
    [][/\ (pc \in {"tcp_backoff", "udp_backoff"} /\ pc' \notin {pc, "cancelled"})
            => pc' \in {"tcp_sockets", "udp_resolve"}
       /\ (pc = "tcp_sockets" /\ pc' \notin {pc, "cancelled"})
            => (addr_st' = NoAddr /\ pc' \in {"tcp_resolve", "tcp_backoff", "returned"})
       /\ (pc' \in {"tcp_connect_ka", "udp_connect"} /\ pc' # pc)
            => ResolveOk
       /\ (pc' = "tcp_connect_st" /\ pc' # pc)
            => (pc = "tcp_connect_ka" /\ addr_st' = addr_st)
       /\ (ResolveOk /\ stun_kind = "host")
            => addr_st' = dns
       /\ ConnectOk
            => (addr_st # NoAddr /\ conn_st' = addr_st /\ conn_prev' = conn_st)
      ]_vars

\* C30 happens: the mapper of a domain-form endpoint has connected its STUN
\* socket in an earlier setup, the DNS has returned another address since, and
\* the setup after the failure is connected to the new address
C30_Witness ==
    /\ stun_kind = "host"
    /\ fails > 0
    /\ conn_prev \in DnsAnswers
    /\ conn_st \in DnsAnswers
    /\ conn_st # conn_prev
    /\ conn_st = dns
    /\ pc \in {"tcp_stun", "udp_probe0"}

\* C31: every UDP keepalive datagram leaves the keepalive socket, never the
\* STUN socket, and goes to the STUN address this outer iteration resolved,
\* which is the address the STUN socket of the iteration is connected to
C31_KeepaliveTarget ==
    dgram # NoDgram =>
        /\ dgram.sock = "socket_ka"
        /\ dgram.to = addr_st
        /\ dgram.to = conn_st
        /\ dgram.to # NoAddr

\* C31 happens: a keepalive datagram was sent in an iteration whose STUN
\* address differs from the one the iteration before was connected to
C31_Witness ==
    /\ proto = "udp"
    /\ pc = "udp_tick"
    /\ dgram # NoDgram
    /\ conn_prev \in DnsAnswers
    /\ conn_st # conn_prev
    /\ dgram.to = conn_st

\* C32: in both modes the ticks of the keepalive loop do not drift: every
\* tick after the first is due one interval after the time the tick before
\* it was due, however long the work of that tick took
C32_NoDrift ==
    [][(tk_n >= 1 /\ tk_n' = tk_n + 1) => tk_sched' = tk_sched + TickInterval]_vars

\* C33: a failure at any step of port reclamation (a socket table that cannot
\* be read, a scan of /proc that fails, pidfd_open, pidfd_getfd, setsockopt)
\* makes force_reuse_port return an error, and it never returns Ok while a
\* matching socket is left without the option
C33_ReclaimFailureSurfaces ==
    (/\ sk_reclaims = 1
     /\ \E t \in PROC_SOURCES :
            \/ sk_env[t] \in {<<"NotFound">>, <<"ReadErr">>}
            \/ \E i \in 1..Len(sk_env[t]) : sk_env[t][i] # "set")
        => sk_out = SockErr("reclaim", "Other")

\* C34: in both modes retry_cnt is between 0 and RETRY_LTD - 1 whenever an
\* outer setup attempt starts or the controller sleeps before the next one,
\* and the increment that makes it reach RETRY_LTD is made in the step in
\* which run returns
C34_RetryCountBelowLimit ==
    /\ [](pc \in {"tcp_sockets", "udp_resolve", "tcp_backoff", "udp_backoff"}
            => retry_cnt \in 0..(RETRY_LTD - 1))
    /\ [][(retry_cnt' # retry_cnt /\ retry_cnt' >= RETRY_LTD)
            => (retry_cnt' = RETRY_LTD /\ retry_cnt = RETRY_LTD - 1
                /\ pc' = "returned")]_vars

\* C34 happens: the controller sleeps with the largest count it can have, after
\* RETRY_LTD - 1 failures in a row
C34_Witness ==
    /\ pc \in {"tcp_backoff", "udp_backoff"}
    /\ retry_cnt = RETRY_LTD - 1
    /\ fails = RETRY_LTD - 1

\* C35: in TCP mode the handler is called, and current_ip is written, only in
\* the step that ends a setup whose every step succeeded and that starts the
\* keepalive of that iteration, with the address that setup discovered; a
\* setup that fails at any step makes no call and leaves current_ip as it was
C35_TcpNotifyAfterSetup ==
    [][proto = "tcp" =>
        /\ (calls' # calls \/ current_ip' # current_ip \/ probes' # probes)
            => (/\ pc = "tcp_stun"
                /\ pc' = "tcp_keepalive"
                /\ ka_sock' # NoSocket)
        /\ (pc = "tcp_stun" /\ pc' = "tcp_keepalive")
            => (/\ Len(probes') = Len(probes) + 1
                /\ calls' = NewCalls(calls, current_ip, probes'[Len(probes')])
                /\ current_ip' = probes'[Len(probes')])
        /\ (pc' \in {"tcp_backoff", "returned"} /\ pc' # pc)
            => (calls' = calls /\ current_ip' = current_ip)
      ]_vars

\* C35 happens: after an address was reported a later setup has failed, and
\* the controller sleeps with the reported address still in current_ip
C35_Witness ==
    /\ proto = "tcp"
    /\ pc = "tcp_backoff"
    /\ fails > 0
    /\ Len(calls) = 1
    /\ current_ip = calls[1]

\* C36: current_ip and retry_cnt are locals of one call of run: the call the
\* supervisor makes after a recoverable error starts with current_ip absent
\* and retry_cnt 0, so the first successful probe of the new call is reported
\* to the handler, also when its address is the one reported last
C36_LocalsPerRunCall ==
    [][/\ (pc = "returned" /\ pc' # pc)
            => (/\ IsRecoverable(result)
                /\ pc' \in {"tcp_sockets", "udp_sockets"}
                /\ current_ip' = NoAddr
                /\ retry_cnt' = 0
                /\ calls' = calls)
       /\ (probes' # probes /\ current_ip = NoAddr)
            => calls' = Append(calls, probes'[Len(probes')])
      ]_vars

\* C36 happens: the handler was called twice in a row with the same address,
\* the second time by the first probe of a later call of run
C36_Witness ==
    /\ Len(calls) = 2
    /\ calls[2] = calls[1]
    /\ Len(probes) = 2
    /\ current_ip = calls[2]

\* C37: in UDP mode the two sockets are built once in a call of run, before
\* the outer loop, and dropped only when run ends: the iteration after an
\* escalation resolves, connects the same STUN socket and probes, and no step
\* of the loop changes the local address of either socket
C37_UdpSocketsBuiltOnce ==
    [][proto = "udp" =>
        /\ (ka_sock' # ka_sock \/ st_sock' # st_sock \/ n_open' # n_open)
            => (\/ pc = "udp_sockets" /\ ka_sock = NoSocket /\ st_sock = NoSocket
                \/ pc' \in {"returned", "cancelled"})
        /\ (pc = "udp_backoff" /\ pc' \notin {pc, "cancelled"})
            => pc' = "udp_resolve"
        /\ (pc = "udp_resolve" /\ pc' \notin {pc, "cancelled", "returned"})
            => pc' = "udp_connect"
        /\ (pc = "udp_connect" /\ pc' \notin {pc, "cancelled", "returned"})
            => pc' = "udp_probe0"
        /\ (pc \in UdpRunning /\ pc' \in UdpRunning)
            => (ka_sock # NoSocket /\ st_sock # NoSocket)
      ]_vars

\* C37 happens: after an escalation the next iteration is at its initial
\* probe, on the two sockets that were bound to assigned ports as run began
C37_Witness ==
    /\ proto = "udp"
    /\ local_port = AnyPort
    /\ pc = "udp_probe0"
    /\ retry_cnt > 0
    /\ n_open = 2
    /\ ka_sock \in EphemeralPorts
    /\ st_sock \in EphemeralPorts

\* C38: udp_socket_addr reads exactly one datagram in a call and does not
\* wait for a later one: when a response of an earlier exchange is queued on
\* the STUN socket as a probe starts, the probe reads that one and fails with
\* TransactionIdMismatch, its own response stays queued, and so every probe
\* that follows reads the response of the probe before it (of the last probe
\* that read a datagram, when a probe in between failed on its I/O)
C38_StaleDatagramShifts ==
    [][(st_pc = "udp_recv" /\ st_pc' = "done" /\ st_io' = "none")
        => /\ Len(st_queue') = Len(st_queue)
           /\ st_queue # <<>>
                => (/\ Head(st_queue).n = st_prev
                    /\ st_prev < st_n
                    /\ Head(st_queue).tx # st_tx
                          => st_out' = Err("StunTransactionIdMismatch")
                    /\ st_queue' = <<Datagram(st_n, st_resp, st_tx)>>)
      ]_vars

\* C38 happens: a datagram was queued before the first probe, and the third
\* probe in a row has failed on the response to the probe before it, with its
\* own response left in the queue
C38_Witness ==
    /\ st_n = 3
    /\ st_prev = 3
    /\ st_pc = "done"
    /\ st_out = Err("StunTransactionIdMismatch")
    /\ st_queue = <<Datagram(3, st_resp, st_tx)>>

\* C39: the result of parsing a response depends on its length, its declared
\* body length, its transaction id and its attributes only: a response with
\* another message type, or without the magic cookie, gives the result the
\* same response gives as a Binding Success Response, so one that is not a
\* Binding Success but has the transaction id of the request and starts with
\* an address attribute is taken as a discovery (of a response that reaches
\* parse_response whole: its body is within MAX_BODY_SIZE)
C39_TypeAndCookieIgnored ==
    (StunAnswered /\ st_resp.hdr # "success" /\ DeclaredLen <= MAX_BODY_SIZE)
    => /\ LET as_success == [st_resp EXCEPT !.hdr = "success"]
          IN  st_out = parse_response(ResponseBytes(as_success, st_tx), st_tx)
       /\ (Len(st_resp.attrs) >= 1 /\ st_resp.attrs[1][1] \in {"xor", "mapped"})
            => st_out = Ok(st_resp.attrs[1][2])

\* C39 happens: a Binding Error Response with the transaction id of the
\* request and an address attribute was answered to a probe, which returned
\* that address
C39_Witness ==
    /\ StunAnswered
    /\ st_resp.hdr = "error"
    /\ Len(st_resp.attrs) >= 1
    /\ st_resp.attrs[1][1] = "xor"
    /\ st_out = Ok(st_resp.attrs[1][2])
====
